---- MODULE Spec2Model ----
(***************************************************************************)
(* Model of the Directus safe-deployment scripts: sync-code.sh,            *)
(* rollback.sh and the deploy.sh orchestrator.  The file system is a set   *)
(* of nodes (directories and files with a content token); every shell      *)
(* command that touches it (mkdir -p, rm -rf, mv, cp -r, rsync) is an      *)
(* operator on that set, and every function of the scripts is one or more  *)
(* actions stepping the script's program counter.                          *)
(***************************************************************************)
EXTENDS Integers, Sequences, FiniteSets, TLC

VARIABLES fs, clock, runs, faults, cfg, rb, rbStartFs, sy, syStartFs, dep, depStartFs,
          ext, dbk, fbk, mv

(***************************************************************************)
(* Bounds of the model.                                                    *)
(***************************************************************************)
\* number of rollback.sh or sync-code.sh commands the operator starts
MaxRuns == 2
\* number of deploy.sh commands the operator starts
MaxDeploys == 1
\* the current day (days since an arbitrary epoch)
Today == 100
\* number of nodes that arrived when a copy stops part-way
MaxPartial == 1
\* number of injected faults (a failing copy, a signal) in one session
MaxFaults == 1

(***************************************************************************)
(* Program constants.                                                      *)
(***************************************************************************)
\* rollback.sh:261  [[ $backup_date -gt 30 ]]
STALE_DAYS == 30
\* rollback.sh:256-259  print('999') when the timestamp cannot be used
UNPARSED_DAYS == 999

(***************************************************************************)
(* Paths.  A path is a sequence of component names.                        *)
(***************************************************************************)
TARGET_DIR == <<"tgt">>
SOURCE_DIR == <<"src">>
BACKUPS_ROOT == <<"backups">>
\* names that carry a timestamp, indexed by the clock
PreRollbackName == <<"pre-rollback-1", "pre-rollback-2", "pre-rollback-3", "pre-rollback-4">>
SyncBackupName == <<"tgt.backup-1", "tgt.backup-2", "tgt.backup-3", "tgt.backup-4">>

Last(p) == p[Len(p)]
Parent(p) == SubSeq(p, 1, Len(p) - 1)
IsPrefix(a, p) == Len(a) <= Len(p) /\ SubSeq(p, 1, Len(a)) = a
Rel(p, base) == SubSeq(p, Len(base) + 1, Len(p))

(***************************************************************************)
(* Nodes.  k is "dir" or "file"; c is the content token of a file ("" is a *)
(* zero-byte file); ts is the timestamp field of a metadata file.          *)
(***************************************************************************)
NoTs == [fmt |-> "", day |-> 0]
Dir(p) == [p |-> p, k |-> "dir", c |-> "", ts |-> NoTs]
File(p, c) == [p |-> p, k |-> "file", c |-> c, ts |-> NoTs]
MetaFile(p, c, ts) == [p |-> p, k |-> "file", c |-> c, ts |-> ts]

Exists(f, p) == \E n \in f : n.p = p
IsDir(f, p) == \E n \in f : n.p = p /\ n.k = "dir"
IsFile(f, p) == \E n \in f : n.p = p /\ n.k = "file"
NodeAt(f, p) == CHOOSE n \in f : n.p = p
\* the nodes strictly below p
Under(f, p) == {n \in f : IsPrefix(p, n.p) /\ n.p # p}
\* p and everything below it
Subtree(f, p) == {n \in f : IsPrefix(p, n.p)}
\* the content of directory p as a tree rooted at the empty path
TreeAt(f, p) == {[n EXCEPT !.p = Rel(n.p, p)] : n \in Under(f, p)}
Rebase(n, a, b) == [n EXCEPT !.p = b \o Rel(n.p, a)]
Paths(S) == {n.p : n \in S}
\* S with the nodes of N written over it
Overwrite(f, N) == {n \in f : n.p \notin Paths(N)} \cup N

(***************************************************************************)
(* Shell commands on the file system.  Each returns [ok, fs].              *)
(***************************************************************************)
\* mkdir -p
MkdirP(f, p) == f \cup {Dir(SubSeq(p, 1, i)) : i \in {j \in 1..Len(p) : ~Exists(f, SubSeq(p, 1, j))}}

\* rm -rf
RmRf(f, p) == {n \in f : ~IsPrefix(p, n.p)}

ParentOk(f, p) == Len(p) = 1 \/ IsDir(f, Parent(p))

\* mv a b : rename; into b when b is an existing directory
MvDest(f, a, b) == IF IsDir(f, b) THEN b \o <<Last(a)>> ELSE b
Mv(f, a, b) ==
    LET dest == MvDest(f, a, b)
        ok == /\ Exists(f, a)
              /\ ParentOk(f, dest)
              /\ ~IsFile(f, dest)
              /\ Under(f, dest) = {}
    IN  IF ok
        THEN [ok |-> TRUE,
              fs |-> ((f \ Subtree(f, a)) \ {n \in f : n.p = dest})
                       \cup {Rebase(n, a, dest) : n \in Subtree(f, a)}]
        ELSE [ok |-> FALSE, fs |-> f]

\* cp -r a b : copy; into b when b is an existing directory
CpDest(f, a, b) == IF IsDir(f, b) THEN b \o <<Last(a)>> ELSE b
CpItems(f, a, b) == {Rebase(n, a, CpDest(f, a, b)) : n \in Subtree(f, a)}
CpR(f, a, b) ==
    IF Exists(f, a) /\ ParentOk(f, CpDest(f, a, b))
    THEN [ok |-> TRUE, fs |-> Overwrite(f, CpItems(f, a, b))]
    ELSE [ok |-> FALSE, fs |-> f]

\* rsync filter rules: a pattern ending in "/" matches directories only
DirPattern(pat) == pat \in {"data/", "uploads/", "backups/", "node_modules/",
                             "cache/", "tmp/"}
GlobMatch(pat, name) ==
    \/ pat = "data/" /\ name = "data"
    \/ pat = "uploads/" /\ name = "uploads"
    \/ pat = "backups/" /\ name = "backups"
    \/ pat = "node_modules/" /\ name = "node_modules"
    \/ pat = "*.log" /\ name \in {"app.log"}
    \/ pat = ".env*" /\ name \in {".env", ".env.production"}
    \/ pat = "cache/" /\ name = "cache"
    \/ pat = "tmp/" /\ name = "tmp"
    \/ pat = ".DS_Store" /\ name = ".DS_Store"
\* a node is excluded when it, or a directory above it, matches a pattern
Excluded(rel, kind, excl) ==
    \E i \in 1..Len(rel) : \E pat \in excl :
        /\ GlobMatch(pat, rel[i])
        /\ DirPattern(pat) => (i < Len(rel) \/ kind = "dir")

\* what rsync -a src/ dst/ transfers
RsyncItems(f, src, dst, excl) ==
    {Rebase(n, src, dst) : n \in {m \in Under(f, src) : ~Excluded(Rel(m.p, src), m.k, excl)}}
\* rsync creates only the last component of dst unless --mkpath is given
RsyncCanStart(f, src, dst, opts) ==
    /\ IsDir(f, src)
    /\ IsDir(f, dst) \/ ParentOk(f, dst) \/ "--mkpath" \in opts
\* extraneous, unprotected files on the receiver (--delete)
RsyncExtraneous(f, src, dst, excl) ==
    {n \in Under(f, dst) : /\ n.p \notin Paths(RsyncItems(f, src, dst, excl))
                           /\ ~Excluded(Rel(n.p, dst), n.k, excl)}
Rsync(f, src, dst, excl, opts) ==
    IF RsyncCanStart(f, src, dst, opts)
    THEN [ok |-> TRUE,
          fs |-> Overwrite(MkdirP(IF "--delete" \in opts
                                  THEN f \ RsyncExtraneous(f, src, dst, excl)
                                  ELSE f, dst),
                           RsyncItems(f, src, dst, excl))]
    ELSE [ok |-> FALSE, fs |-> f]
\* a transfer that stops part-way: only the nodes of S arrived
ParentClosed(S, dst) == \A n \in S : Parent(n.p) = dst \/ Parent(n.p) \in Paths(S)
\* the ways a copy of items into dst can stop part-way
Partials(items, dst) ==
    {S \in SUBSET items : S # items /\ Cardinality(S) <= MaxPartial /\ ParentClosed(S, dst)}
RsyncPartial(f, dst, S) == [ok |-> FALSE, fs |-> Overwrite(MkdirP(f, dst), S)]

vars == <<fs, clock, runs, faults, cfg, rb, rbStartFs, sy, syStartFs, dep, depStartFs,
          ext, dbk, fbk, mv>>

\* the stage scripts run on their own: deploy-extensions.sh,
\* backup-database.sh and backup-files.sh, before their argument parsing
ExtIdle == [pc |-> "idle", SOURCE |-> <<>>, DRY_RUN |-> FALSE, VERBOSE |-> FALSE,
            list |-> <<>>, listed |-> FALSE, i |-> 1, deployment_failed |-> FALSE,
            reported |-> {}, installFailed |-> {}, verified |-> FALSE,
            start |-> {}, exit |-> -1]
DbkIdle == [pc |-> "idle", DRY_RUN |-> FALSE, VERBOSE |-> FALSE,
            backup_dir |-> <<>>, exit |-> -1]
FbkIdle == [pc |-> "idle", SOURCE |-> <<>>, DRY_RUN |-> FALSE, VERBOSE |-> FALSE,
            EXCLUDE_CACHE |-> TRUE, rsync |-> TRUE, target_dir |-> <<>>,
            file_count |-> -1, exit |-> -1]
\* manage-versions.sh before its argument parsing
MvIdle == [pc |-> "idle", VERBOSE |-> FALSE, backup_dirs |-> <<>>, i |-> 1,
           kept_count |-> 0, removed_count |-> 0, start |-> {}, exit |-> -1]
stageVars == <<ext, dbk, fbk, mv>>

(***************************************************************************)
(* rollback.sh                                                             *)
(***************************************************************************)
ROLLBACK_STAGING == <<"tgt.rollback-staging">>
TEMP_BACKUP == <<"tgt.pre-rollback-temp">>
METADATA == "backup-metadata.json"
PRESERVE_DIRS == <<"data", "uploads">>

\* rollback.sh:243-259 : the age in days the embedded python prints.
\* datetime.fromisoformat accepts "YYYY-MM-DD HH:MM:SS"; a trailing Z either
\* fails to parse or yields an aware datetime that cannot be subtracted from
\* datetime.now(); "HH-MM-SS" does not parse.  Every failure prints 999.
BackupAgeDays(n) ==
    IF n.c = "badjson" THEN UNPARSED_DAYS
    ELSE IF n.ts.fmt = "" THEN UNPARSED_DAYS
    ELSE IF n.ts.fmt = "ISO" THEN Today - n.ts.day
    ELSE UNPARSED_DAYS

\* rollback.sh:173-276 : the number of issues of a live verification
verify_backup_integrity(f, B) ==
    LET meta == B \o <<METADATA>>
        db == B \o <<"database.sql">>
        metaIssue == IF ~IsFile(f, meta) THEN 1
                     ELSE IF NodeAt(f, meta).c = "badjson" THEN 1 ELSE 0
        dbIssue == IF IsFile(f, db) /\ NodeAt(f, db).c = "" THEN 1 ELSE 0
        ageIssue == IF IsFile(f, meta) /\ BackupAgeDays(NodeAt(f, meta)) > STALE_DAYS
                    THEN 1 ELSE 0
    IN  metaIssue + dbIssue + ageIssue

RbIdle == [pc |-> "idle", caller |-> "none", BACKUP_DIR |-> <<>>, DRY_RUN |-> FALSE,
           FORCE |-> FALSE, VERIFY_ONLY |-> FALSE, issues |-> 0,
           CURRENT_BACKUP |-> <<>>, i |-> 1, failed |-> {}, staged |-> {},
           promoted |-> FALSE, exit |-> -1]

\* an injected fault uses up one unit of the fault budget
Fault == faults < MaxFaults /\ faults' = faults + 1
NoFault == faults' = faults

RbRunning == rb.pc \notin {"idle", "done"}
RbExit(code) == rb' = [rb EXCEPT !.pc = "done", !.exit = code]
RbGoto(pc) == rb' = [rb EXCEPT !.pc = pc]

\* the directories an operator can name with --backup
BackupCandidates(f) ==
    {n.p : n \in {m \in f : m.k = "dir" /\ Len(m.p) = 2 /\ Parent(m.p) = BACKUPS_ROOT}}
        \cup {BACKUPS_ROOT \o <<"no-such-backup">>}

\* rollback.sh:638-682 : argument parsing, then main is entered
RbInvoke(caller, backup, dry, force, verifyOnly) ==
    /\ rb' = [RbIdle EXCEPT !.pc = "validate_parameters", !.caller = caller,
                            !.BACKUP_DIR = backup, !.DRY_RUN = dry, !.FORCE = force,
                            !.VERIFY_ONLY = verifyOnly]
    /\ rbStartFs' = fs

\* rollback.sh:127-170
RbValidateParameters ==
    /\ rb.pc = "validate_parameters"
    /\ IF ~IsDir(fs, rb.BACKUP_DIR) THEN RbExit(2)
       ELSE IF ~rb.VERIFY_ONLY /\ ~IsDir(fs, TARGET_DIR) THEN RbExit(2)
       ELSE RbGoto("verify_backup_integrity")
    /\ UNCHANGED <<fs, clock, runs, faults, cfg, rbStartFs, sy, syStartFs, dep, depStartFs>>
    /\ UNCHANGED stageVars

\* --force taken to bypass a failed verification
RbVerifyBackup_ForceBypass ==
    /\ rb.pc = "verify_backup_integrity"
    /\ LET issues == IF rb.DRY_RUN THEN 0 ELSE verify_backup_integrity(fs, rb.BACKUP_DIR)
           stop == (issues # 0 /\ ~rb.FORCE) \/ rb.VERIFY_ONLY
       IN  rb' = [rb EXCEPT !.issues = issues,
                            !.pc = IF stop THEN "done" ELSE "get_user_confirmation",
                            !.exit = IF issues # 0 /\ ~rb.FORCE THEN 2
                                     ELSE IF rb.VERIFY_ONLY THEN 0 ELSE -1]
    /\ UNCHANGED <<fs, clock, runs, faults, cfg, rbStartFs, sy, syStartFs, dep, depStartFs>>
    /\ UNCHANGED stageVars

\* rollback.sh:173-181 and 588-598
RbVerifyBackup ==
    /\ rb.pc = "verify_backup_integrity"
    /\ LET issues == IF rb.DRY_RUN THEN 0 ELSE verify_backup_integrity(fs, rb.BACKUP_DIR)
       IN  rb' = [rb EXCEPT !.issues = issues,
                            !.pc = IF issues # 0 \/ rb.VERIFY_ONLY THEN "done"
                                   ELSE "get_user_confirmation",
                            !.exit = IF issues # 0 THEN 2
                                     ELSE IF rb.VERIFY_ONLY THEN 0 ELSE -1]
    /\ UNCHANGED <<fs, clock, runs, faults, cfg, rbStartFs, sy, syStartFs, dep, depStartFs>>
    /\ UNCHANGED stageVars

\* rollback.sh:345-380 and 605-609 : response is the line read from stdin
RbConfirm ==
    /\ rb.pc = "get_user_confirmation"
    /\ \E response \in {"yes", "no", ""} :
          IF rb.FORCE \/ rb.DRY_RUN \/ response = "yes"
          THEN RbGoto("backup_current_state")
          ELSE RbExit(3)
    /\ UNCHANGED <<fs, clock, runs, faults, cfg, rbStartFs, sy, syStartFs, dep, depStartFs>>
    /\ UNCHANGED stageVars

PreRollbackDir == BACKUPS_ROOT \o <<PreRollbackName[clock]>>
PRE_ROLLBACK_EXCLUDES == {"data/", "uploads/", "backups/"}
\* rollback.sh:404-413 : timestamp "$(date -u +%Y-%m-%dT%H:%M:%SZ)"
PreRollbackMetadata(dir) == MetaFile(dir \o <<METADATA>>, "pre-rollback", [fmt |-> "ISOZ", day |-> Today])

\* rollback.sh:383-417 and 611-615
RbBackupCurrentState ==
    /\ rb.pc = "backup_current_state"
    /\ IF rb.DRY_RUN
       THEN /\ rb' = [rb EXCEPT !.CURRENT_BACKUP = PreRollbackDir, !.pc = "perform_rollback"]
            /\ fs' = fs
            /\ NoFault
       ELSE LET made == MkdirP(fs, PreRollbackDir)
                items == RsyncItems(made, TARGET_DIR, PreRollbackDir, PRE_ROLLBACK_EXCLUDES)
            IN  \/ /\ fs' = Overwrite(Rsync(made, TARGET_DIR, PreRollbackDir,
                                            PRE_ROLLBACK_EXCLUDES, {}).fs,
                                      {PreRollbackMetadata(PreRollbackDir)})
                   /\ rb' = [rb EXCEPT !.CURRENT_BACKUP = PreRollbackDir,
                                       !.pc = "perform_rollback"]
                   /\ NoFault
                \/ \E S \in Partials(items, PreRollbackDir) :
                      /\ Fault
                      /\ fs' = RsyncPartial(made, PreRollbackDir, S).fs
                      /\ rb' = [rb EXCEPT !.pc = "done", !.exit = 1,
                                          !.failed = @ \cup {"backup_current_state"}]
    /\ UNCHANGED <<clock, runs, cfg, rbStartFs, sy, syStartFs, dep, depStartFs>>
    /\ UNCHANGED stageVars

\* rollback.sh:420-436
RbCreateStaging ==
    /\ rb.pc = "perform_rollback"
    /\ IF rb.DRY_RUN
       THEN RbGoto("verify_rollback") /\ fs' = fs
       ELSE RbGoto("restore") /\ fs' = MkdirP(fs, ROLLBACK_STAGING)
    /\ UNCHANGED <<clock, runs, faults, cfg, rbStartFs, sy, syStartFs, dep, depStartFs>>
    /\ UNCHANGED stageVars

\* the source and filter of the restore rsync, by backup structure
RestoreSource(f, B) == IF IsFile(f, B \o <<"package.json">>) THEN B ELSE B \o <<"files">>
RestoreExcludes(f, B) == IF IsFile(f, B \o <<"package.json">>) THEN {"data/", "uploads/"} ELSE {}

\* rollback.sh:438-454 : perform_rollback runs as the condition of an if, so
\* errexit is off inside it and a failed rsync does not stop the function
RbRestore ==
    /\ rb.pc = "restore"
    /\ LET B == rb.BACKUP_DIR
           src == RestoreSource(fs, B)
           items == RsyncItems(fs, src, ROLLBACK_STAGING, RestoreExcludes(fs, B))
       IN  IF ~IsFile(fs, B \o <<"package.json">>) /\ ~IsDir(fs, B \o <<"files">>)
           THEN /\ fs' = RmRf(fs, ROLLBACK_STAGING)
                /\ rb' = [rb EXCEPT !.pc = "done", !.exit = 1,
                                    !.failed = @ \cup {"structure"}]
                /\ NoFault
           ELSE \/ /\ fs' = Rsync(fs, src, ROLLBACK_STAGING, RestoreExcludes(fs, B), {}).fs
                   /\ rb' = [rb EXCEPT !.pc = "preserve", !.i = 1]
                   /\ NoFault
                \/ \E S \in Partials(items, ROLLBACK_STAGING) :
                      /\ Fault
                      /\ fs' = RsyncPartial(fs, ROLLBACK_STAGING, S).fs
                      /\ rb' = [rb EXCEPT !.pc = "preserve", !.i = 1,
                                          !.failed = @ \cup {"restore"}]
    /\ UNCHANGED <<clock, runs, cfg, rbStartFs, sy, syStartFs, dep, depStartFs>>
    /\ UNCHANGED stageVars

\* rollback.sh:456-470 : one iteration of the loop over preserve_dirs
RbPreserve ==
    /\ rb.pc = "preserve"
    /\ LET dir == PRESERVE_DIRS[rb.i]
           source_path == TARGET_DIR \o <<dir>>
           target_path == ROLLBACK_STAGING \o <<dir>>
           next == IF rb.i = Len(PRESERVE_DIRS) THEN "mv_target_aside" ELSE "preserve"
           ni == IF rb.i = Len(PRESERVE_DIRS) THEN rb.i ELSE rb.i + 1
       IN  IF ~IsDir(fs, source_path)
           THEN fs' = fs /\ rb' = [rb EXCEPT !.pc = next, !.i = ni] /\ NoFault
           ELSE \/ /\ fs' = CpR(fs, source_path, target_path).fs
                   /\ NoFault
                   /\ rb' = [rb EXCEPT !.pc = next, !.i = ni,
                                       !.failed = IF CpR(fs, source_path, target_path).ok
                                                  THEN @ ELSE @ \cup {"preserve"}]
                \/ \E S \in Partials(CpItems(fs, source_path, target_path),
                                      Parent(CpDest(fs, source_path, target_path))) :
                      /\ Fault
                      /\ fs' = Overwrite(fs, S)
                      /\ rb' = [rb EXCEPT !.pc = next, !.i = ni,
                                          !.failed = @ \cup {"preserve"}]
    /\ UNCHANGED <<clock, runs, cfg, rbStartFs, sy, syStartFs, dep, depStartFs>>
    /\ UNCHANGED stageVars

\* rollback.sh:475-476
RbMvTargetAside ==
    /\ rb.pc = "mv_target_aside"
    /\ fs' = Mv(fs, TARGET_DIR, TEMP_BACKUP).fs
    /\ rb' = [rb EXCEPT !.pc = "mv_staging_in",
                        !.staged = TreeAt(fs, ROLLBACK_STAGING),
                        !.failed = IF Mv(fs, TARGET_DIR, TEMP_BACKUP).ok
                                   THEN @ ELSE @ \cup {"mv_target_aside"}]
    /\ UNCHANGED <<clock, runs, faults, cfg, rbStartFs, sy, syStartFs, dep, depStartFs>>
    /\ UNCHANGED stageVars

\* rollback.sh:477-483 : the function returns the status of its last log
RbMvStagingIn ==
    /\ rb.pc = "mv_staging_in"
    /\ fs' = Mv(fs, ROLLBACK_STAGING, TARGET_DIR).fs
    /\ rb' = [rb EXCEPT !.pc = "verify_rollback",
                        !.promoted = Mv(fs, ROLLBACK_STAGING, TARGET_DIR).ok,
                        !.failed = IF Mv(fs, ROLLBACK_STAGING, TARGET_DIR).ok
                                   THEN @ ELSE @ \cup {"mv_staging_in"}]
    /\ UNCHANGED <<clock, runs, faults, cfg, rbStartFs, sy, syStartFs, dep, depStartFs>>
    /\ UNCHANGED stageVars

\* validate-deployment.sh:434-470 : the exit status of the argument loop
VALIDATE_OPTIONS == {"--deployment-dir", "--verbose", "--skip-database", "--skip-files",
                     "--skip-extensions", "--skip-services", "--help"}
ValidateDeploymentArgs(options) == IF options \subseteq VALIDATE_OPTIONS THEN 0 ELSE 2

\* rollback.sh:503-551 : the issue count of a live verification
verify_rollback(f) ==
    (IF ~IsFile(f, TARGET_DIR \o <<"package.json">>) THEN 1 ELSE 0)
    + (IF ValidateDeploymentArgs({"--deployment-dir", "--skip-api"}) # 0 THEN 1 ELSE 0)

\* rollback.sh:623-636
RbVerifyRollback ==
    /\ rb.pc = "verify_rollback"
    /\ IF rb.DRY_RUN \/ verify_rollback(fs) = 0 THEN RbExit(0) ELSE RbExit(1)
    /\ UNCHANGED <<fs, clock, runs, faults, cfg, rbStartFs, sy, syStartFs, dep, depStartFs>>
    /\ UNCHANGED stageVars

\* the script is killed by a signal between two commands
RbInterrupt ==
    /\ RbRunning
    /\ Fault
    /\ RbExit(130)
    /\ UNCHANGED <<fs, clock, runs, cfg, rbStartFs, sy, syStartFs, dep, depStartFs>>
    /\ UNCHANGED stageVars

(***************************************************************************)
(* sync-code.sh                                                            *)
(***************************************************************************)
STAGING_DIR == <<"deployment-staging">>
TARGET_NEW == <<"tgt.new">>
\* sync-code.sh:189
FALLBACK_EXCLUDES == {"data/", "uploads/", "backups/", ".env*", "*.log", "node_modules/"}
Range(q) == {q[i] : i \in 1..Len(q)}

\* sync-code.sh:168-194 : the filter rules handed to rsync
build_exclude_patterns(config) ==
    IF config.exclude_patterns # <<>> THEN Range(config.exclude_patterns)
    ELSE FALLBACK_EXCLUDES
\* the python helper prints one --exclude per line; the fallback is one line
ExcludeLines(config) ==
    IF config.exclude_patterns # <<>> THEN Len(config.exclude_patterns) ELSE 1

\* sync-code.sh:233-271 : what the function writes to stdout, which main
\* captures whole as sync_target.  log prints to stdout too, so in a live
\* staged run the captured text is a log line followed by the path.
create_staging_directory(useStaging, dry) ==
    IF ~useStaging THEN [loglines |-> 0, path |-> TARGET_DIR]
    ELSE [loglines |-> 1, path |-> STAGING_DIR]
\* the directory a captured text names when it is used as one path: text
\* that starts with a log line is a relative path below a directory named
\* after that line
ShellPath(captured) ==
    IF captured.loglines = 0 THEN captured.path
    ELSE <<"[date] Created staging directory: ">> \o captured.path

\* sync-code.sh:310-353 : eval runs the command text line by line; rsync is
\* given its source and destination only when the text is a single line
RsyncCmdIsOneLine(config, verbose) == ~verbose /\ ExcludeLines(config) <= 1

SyIdle == [pc |-> "idle", caller |-> "none", SOURCE |-> SOURCE_DIR, DRY_RUN |-> FALSE,
           VERBOSE |-> FALSE, USE_STAGING |-> TRUE,
           sync_target |-> [loglines |-> 0, path |-> <<>>],
           staged |-> {}, renamed |-> FALSE, exit |-> -1]
SyRunning == sy.pc \notin {"idle", "done"}
SyExit(code) == sy' = [sy EXCEPT !.pc = "done", !.exit = code]
SyGoto(pc) == sy' = [sy EXCEPT !.pc = pc]

\* sync-code.sh:474-511 : argument parsing, then main is entered
SyInvoke(caller, source, dry, verbose, staging) ==
    /\ sy' = [SyIdle EXCEPT !.pc = "validate_directories", !.caller = caller,
                            !.SOURCE = source, !.DRY_RUN = dry, !.VERBOSE = verbose,
                            !.USE_STAGING = staging]
    /\ syStartFs' = fs

\* the target directory created whatever the mode
SyValidateDirectories_NoDryRunGuard ==
    /\ sy.pc = "validate_directories"
    /\ IF ~IsDir(fs, sy.SOURCE) THEN SyExit(1) /\ fs' = fs
       ELSE /\ SyGoto("create_staging_directory")
            /\ fs' = MkdirP(fs, TARGET_DIR)
    /\ UNCHANGED <<clock, runs, faults, cfg, rb, rbStartFs, syStartFs, dep, depStartFs>>
    /\ UNCHANGED stageVars

\* sync-code.sh:85-138
SyValidateDirectories ==
    /\ sy.pc = "validate_directories"
    /\ IF ~IsDir(fs, sy.SOURCE) THEN SyExit(1) /\ fs' = fs
       ELSE /\ SyGoto("create_staging_directory")
            /\ fs' = IF sy.DRY_RUN THEN fs ELSE MkdirP(fs, TARGET_DIR)
    /\ UNCHANGED <<clock, runs, faults, cfg, rb, rbStartFs, syStartFs, dep, depStartFs>>
    /\ UNCHANGED stageVars

\* sync-code.sh:233-271 and 453-455
SyCreateStaging ==
    /\ sy.pc = "create_staging_directory"
    /\ sy' = [sy EXCEPT !.pc = "perform_sync",
                        !.sync_target = create_staging_directory(sy.USE_STAGING, sy.DRY_RUN)]
    /\ fs' = IF sy.USE_STAGING /\ ~sy.DRY_RUN
             THEN MkdirP(RmRf(fs, STAGING_DIR), STAGING_DIR)
             ELSE fs
    /\ UNCHANGED <<clock, runs, faults, cfg, rb, rbStartFs, syStartFs, dep, depStartFs>>
    /\ UNCHANGED stageVars

\* sync-code.sh:303-356 and 457-461 : errexit is on, a failing rsync ends
\* the script
SyPerformSync ==
    /\ sy.pc = "perform_sync"
    /\ LET dst == ShellPath(sy.sync_target)
           excl == build_exclude_patterns(cfg)
           opts == cfg.rsync_options
           items == RsyncItems(fs, sy.SOURCE, dst, excl)
       IN  IF sy.DRY_RUN
           THEN SyGoto("promote_staging") /\ fs' = fs /\ NoFault
           ELSE IF ~RsyncCmdIsOneLine(cfg, sy.VERBOSE) \/ ~RsyncCanStart(fs, sy.SOURCE, dst, opts)
           THEN SyExit(1) /\ fs' = fs /\ NoFault
           ELSE \/ /\ fs' = Rsync(fs, sy.SOURCE, dst, excl, opts).fs
                   /\ SyGoto("promote_staging")
                   /\ NoFault
                \/ \E S \in Partials(items, dst) :
                      /\ Fault
                      /\ fs' = RsyncPartial(fs, dst, S).fs
                      /\ SyExit(1)
    /\ UNCHANGED <<clock, runs, cfg, rb, rbStartFs, syStartFs, dep, depStartFs>>
    /\ UNCHANGED stageVars

SyncBackupDir == <<SyncBackupName[clock]>>

\* sync-code.sh:359-380 : the early returns, then cp -r staging TARGET.new
SyPromoteCopy ==
    /\ sy.pc = "promote_staging"
    /\ LET staging_dir == ShellPath(sy.sync_target)
           items == CpItems(fs, staging_dir, TARGET_NEW)
       IN  IF ~sy.USE_STAGING \/ staging_dir = TARGET_DIR \/ sy.DRY_RUN
           THEN SyExit(0) /\ fs' = fs /\ NoFault
           ELSE IF ~CpR(fs, staging_dir, TARGET_NEW).ok
           THEN SyExit(1) /\ fs' = fs /\ NoFault
           ELSE \/ /\ fs' = CpR(fs, staging_dir, TARGET_NEW).fs
                   /\ sy' = [sy EXCEPT !.pc = "promote_mv_target",
                                       !.staged = TreeAt(fs, staging_dir)]
                   /\ NoFault
                \/ \E S \in Partials(items, Parent(CpDest(fs, staging_dir, TARGET_NEW))) :
                      /\ Fault
                      /\ fs' = Overwrite(fs, S)
                      /\ SyExit(1)
    /\ UNCHANGED <<clock, runs, cfg, rb, rbStartFs, syStartFs, dep, depStartFs>>
    /\ UNCHANGED stageVars

\* sync-code.sh:382-385
SyPromoteMoveTarget ==
    /\ sy.pc = "promote_mv_target"
    /\ IF ~IsDir(fs, TARGET_DIR) THEN SyGoto("promote_mv_new") /\ fs' = fs
       ELSE IF Mv(fs, TARGET_DIR, SyncBackupDir).ok
       THEN SyGoto("promote_mv_new") /\ fs' = Mv(fs, TARGET_DIR, SyncBackupDir).fs
       ELSE SyExit(1) /\ fs' = fs
    /\ UNCHANGED <<clock, runs, faults, cfg, rb, rbStartFs, syStartFs, dep, depStartFs>>
    /\ UNCHANGED stageVars

\* sync-code.sh:387-388
SyPromoteMoveNew ==
    /\ sy.pc = "promote_mv_new"
    /\ IF Mv(fs, TARGET_NEW, TARGET_DIR).ok
       THEN /\ sy' = [sy EXCEPT !.pc = "promote_cleanup", !.renamed = TRUE]
            /\ fs' = Mv(fs, TARGET_NEW, TARGET_DIR).fs
       ELSE SyExit(1) /\ fs' = fs
    /\ UNCHANGED <<clock, runs, faults, cfg, rb, rbStartFs, syStartFs, dep, depStartFs>>
    /\ UNCHANGED stageVars

\* sync-code.sh:393-396 and 466-471
SyPromoteCleanup ==
    /\ sy.pc = "promote_cleanup"
    /\ fs' = RmRf(fs, ShellPath(sy.sync_target))
    /\ SyExit(0)
    /\ UNCHANGED <<clock, runs, faults, cfg, rb, rbStartFs, syStartFs, dep, depStartFs>>
    /\ UNCHANGED stageVars

\* the script is killed by a signal between two commands
SyInterrupt ==
    /\ SyRunning
    /\ Fault
    /\ SyExit(130)
    /\ UNCHANGED <<fs, clock, runs, cfg, rb, rbStartFs, syStartFs, dep, depStartFs>>
    /\ UNCHANGED stageVars

(***************************************************************************)
(* Initial file system: a source tree, a live target with user data, and   *)
(* one backup left by earlier operation.                                   *)
(***************************************************************************)
At(base, T) == {[n EXCEPT !.p = base \o n.p] : n \in T}

SourceTree == {File(<<"package.json">>, "code-v3"), File(<<"app.js">>, "code-v3"),
               File(<<"app.log">>, "log"),
               Dir(<<"uploads">>), File(<<"uploads", "seed.png">>, "seed")}
TargetTree == {File(<<"package.json">>, "code-v2"), File(<<"app.js">>, "code-v2"),
               Dir(<<"uploads">>), File(<<"uploads", "a.png">>, "img-new"),
               Dir(<<"data">>), File(<<"data", "db.sqlite">>, "db-new")}
CodeV1 == {File(<<"package.json">>, "code-v1"), File(<<"old.js">>, "code-v1")}
OldUploads == {Dir(<<"uploads">>), File(<<"uploads", "a.png">>, "img-old"),
               File(<<"uploads", "gone.png">>, "img-old")}
\* payload shapes of a backup directory
BackupPayloads ==
    { CodeV1,
      CodeV1 \cup OldUploads,
      {Dir(<<"files">>)} \cup At(<<"files">>, CodeV1),
      {Dir(<<"files">>)} \cup At(<<"files">>, CodeV1 \cup OldUploads),
      {} }
\* metadata sidecars: absent, unparsable, and the timestamp formats in use
BackupMetadatas ==
    { {},
      {MetaFile(<<METADATA>>, "badjson", NoTs)},
      {MetaFile(<<METADATA>>, "full", [fmt |-> "ISO", day |-> Today - 1])},
      {MetaFile(<<METADATA>>, "full", [fmt |-> "ISO", day |-> Today - STALE_DAYS - 1])},
      {MetaFile(<<METADATA>>, "files", [fmt |-> "DASHED", day |-> Today - 1])} }
BackupDumps == { {}, {File(<<"database.sql">>, "")}, {File(<<"database.sql">>, "dump")} }
InitialBackup == BACKUPS_ROOT \o <<"backup-A">>
FreshMetadata == {MetaFile(<<METADATA>>, "full", [fmt |-> "ISO", day |-> Today - 1])}
\* every payload with good metadata; every metadata and every dump with one payload
InitialBackups ==
    {payload \cup FreshMetadata : payload \in BackupPayloads}
        \cup {CodeV1 \cup meta : meta \in BackupMetadatas}
        \cup {CodeV1 \cup FreshMetadata \cup dump : dump \in BackupDumps}

\* exclude_patterns of deploy-config.json: the documented list, none (the
\* fallback list applies), and a single pattern
ExcludePolicies == { <<"data/", "uploads/", "backups/", ".env*", "*.log">>, <<>>, <<"*.log">> }
RsyncOptionSets == { {"--archive", "--verbose"}, {"--archive", "--delete"},
                     {"--archive", "--mkpath"} }

(***************************************************************************)
(* deploy.sh, the orchestrator.  Its child scripts run in the foreground;  *)
(* a trapped signal is handled when the foreground child has finished.     *)
(***************************************************************************)
DbBackupName == <<"directus-db-backup-1", "directus-db-backup-2",
                  "directus-db-backup-3", "directus-db-backup-4">>
FilesBackupName == <<"directus-files-backup-1", "directus-files-backup-2",
                     "directus-files-backup-3", "directus-files-backup-4">>
\* the names find's -name "*backup*" matches, in the order sort gives them
BackupSortOrder == <<"backup-A">> \o DbBackupName \o FilesBackupName \o <<"site-backup">>
SortRank(name) == CHOOSE i \in 1..Len(BackupSortOrder) : BackupSortOrder[i] = name
DRY_RUN_BACKUP == <<"dry-run-backup">>

\* deploy.sh:300-305 : find ... -maxdepth 1 -type d -name "*backup*" | sort | tail -1
\* (the base directory itself matches and sorts first)
LatestBackup(f) ==
    LET found == {n.p : n \in {m \in f : /\ m.k = "dir"
                                         /\ Len(m.p) = 2
                                         /\ Parent(m.p) = BACKUPS_ROOT
                                         /\ Last(m.p) \in Range(BackupSortOrder)}}
    IN  IF found = {} THEN BACKUPS_ROOT
        ELSE CHOOSE p \in found : \A q \in found : SortRank(Last(q)) <= SortRank(Last(p))

\* backup-database.sh : the directory a successful run leaves
DatabaseBackup(B) ==
    {Dir(B), File(B \o <<"database.sql">>, "dump"),
     MetaFile(B \o <<METADATA>>, "database", [fmt |-> "DASHED", day |-> Today])}
\* backup-files.sh : the directory a successful run leaves for --source src
FilesBackup(f, B, src) ==
    {Dir(B), Dir(B \o <<"files">>),
     MetaFile(B \o <<METADATA>>, "files", [fmt |-> "DASHED", day |-> Today])}
        \cup At(B \o <<"files">>, TreeAt(f, src))

\* deploy.sh:345-349 : $deploy_args is expanded without eval, so the quote
\* characters around the source path reach deploy-extensions.sh as part of
\* the path, and --force is an option deploy-extensions.sh does not know
QuotedWord(p) == <<"\"">> \o p
ExtensionDeployAccepts(f, force, source) == ~force /\ IsDir(f, QuotedWord(source))

\* deploy.sh:396
ShouldRollback_IgnoresNoRollback(d) ==
    /\ d.BACKUP_CREATED # <<>>
    /\ d.BACKUP_CREATED # DRY_RUN_BACKUP
ShouldRollback(d) ==
    /\ d.ROLLBACK_ON_FAILURE
    /\ d.BACKUP_CREATED # <<>>
    /\ d.BACKUP_CREATED # DRY_RUN_BACKUP

DepIdle == [pc |-> "idle", SOURCE |-> SOURCE_DIR, DRY_RUN |-> FALSE, VERBOSE |-> FALSE,
            FORCE |-> FALSE, SKIP_BACKUP |-> FALSE, SKIP_CHECKS |-> FALSE,
            ROLLBACK_ON_FAILURE |-> TRUE, BACKUP_CREATED |-> <<>>,
            DEPLOYMENT_STARTED |-> FALSE, backupStage |-> "pending",
            aborted |-> "none", failure |-> "none", reason |-> "none", exitAfter |-> 1,
            rollbacks |-> <<>>, report |-> {}, sig |-> FALSE, trapped |-> FALSE,
            exit |-> -1]
DepRunning == dep.pc \notin {"idle", "done"}
ChildRunning == (SyRunning /\ sy.caller = "deploy") \/ (RbRunning /\ rb.caller = "deploy")
\* the orchestrator itself executes its next command
DepSteps(pc) == dep.pc = pc /\ ~dep.sig
DepExit(code) == dep' = [dep EXCEPT !.pc = "done", !.exit = code]
DepGoto(pc) == dep' = [dep EXCEPT !.pc = pc]
\* every stage reporting the same general failure status
DepAbort_AlwaysOne(stage, code) == dep' = [dep EXCEPT !.pc = "done", !.exit = 1, !.aborted = stage]
\* deploy.sh:158, 176, 195, 250, 284, 292, 555 : a stage before the deployment
\* ends the run with its own status
DepAbort(stage, code) == dep' = [dep EXCEPT !.pc = "done", !.exit = code, !.aborted = stage]
LOGS_DIR == <<"logs">>
DeploymentLogName == <<"deployment-deploy-1.log", "deployment-deploy-2.log",
                       "deployment-deploy-3.log", "deployment-deploy-4.log">>

\* deploy.sh:100-129 and 482-489 : the deployment id, the log file of a live
\* run, and load_configuration
DepSetupLogging ==
    /\ DepSteps("setup_deployment_logging")
    /\ DepGoto("validate_prerequisites")
    /\ fs' = IF dep.DRY_RUN THEN fs
             ELSE Overwrite(MkdirP(fs, LOGS_DIR),
                            {File(LOGS_DIR \o <<DeploymentLogName[clock]>>, "log")})
    /\ UNCHANGED <<clock, runs, faults, cfg, rb, rbStartFs, sy, syStartFs, depStartFs>>
    /\ UNCHANGED stageVars

\* deploy.sh:150-216
DepValidatePrerequisites ==
    /\ DepSteps("validate_prerequisites")
    /\ IF ~IsDir(fs, dep.SOURCE) THEN DepAbort("prerequisites", 2) /\ fs' = fs
       ELSE IF dep.DRY_RUN
       THEN /\ IF Parent(TARGET_DIR) = <<>> \/ IsDir(fs, Parent(TARGET_DIR))
               THEN DepGoto("run_pre_deployment_checks")
               ELSE DepAbort("prerequisites", 2)
            /\ fs' = fs
       ELSE DepGoto("run_pre_deployment_checks") /\ fs' = MkdirP(fs, TARGET_DIR)
    /\ UNCHANGED <<clock, runs, faults, cfg, rb, rbStartFs, sy, syStartFs, depStartFs>>
    /\ UNCHANGED stageVars

\* deploy.sh:219-253 : pre-deployment-checks.sh only reads the target
DepPreDeploymentChecks ==
    /\ DepSteps("run_pre_deployment_checks")
    /\ IF dep.SKIP_CHECKS \/ dep.DRY_RUN THEN DepGoto("create_backup")
       ELSE \E passed \in BOOLEAN :
               IF passed THEN DepGoto("create_backup") ELSE DepAbort("checks", 2)
    /\ UNCHANGED <<fs, clock, runs, faults, cfg, rb, rbStartFs, sy, syStartFs, depStartFs>>
    /\ UNCHANGED stageVars

\* deploy.sh:256-285
DepBackupDatabase ==
    /\ DepSteps("create_backup")
    /\ IF dep.SKIP_BACKUP
       THEN /\ dep' = [dep EXCEPT !.pc = "perform_deployment", !.backupStage = "skipped"]
            /\ fs' = fs
       ELSE IF dep.DRY_RUN
       THEN /\ dep' = [dep EXCEPT !.pc = "perform_deployment", !.backupStage = "done",
                                  !.BACKUP_CREATED = DRY_RUN_BACKUP]
            /\ fs' = fs
       ELSE \E dumped \in BOOLEAN :
               IF dumped
               THEN /\ fs' = Overwrite(MkdirP(fs, BACKUPS_ROOT),
                                       DatabaseBackup(BACKUPS_ROOT \o <<DbBackupName[clock]>>))
                    /\ DepGoto("backup_files")
               ELSE DepAbort("backup", 3) /\ fs' = fs
    /\ UNCHANGED <<clock, runs, faults, cfg, rb, rbStartFs, sy, syStartFs, depStartFs>>
    /\ UNCHANGED stageVars

\* deploy.sh:287-296
DepBackupFiles ==
    /\ DepSteps("backup_files")
    /\ LET uploads == TARGET_DIR \o <<"uploads">>
       IN  IF IsDir(fs, uploads)
           THEN \E copied \in BOOLEAN :
                   IF copied
                   THEN /\ fs' = Overwrite(fs, FilesBackup(fs,
                                      BACKUPS_ROOT \o <<FilesBackupName[clock]>>, uploads))
                        /\ DepGoto("find_backup")
                   ELSE DepAbort("backup", 3) /\ fs' = fs
           ELSE DepGoto("find_backup") /\ fs' = fs
    /\ UNCHANGED <<clock, runs, faults, cfg, rb, rbStartFs, sy, syStartFs, depStartFs>>
    /\ UNCHANGED stageVars

\* deploy.sh:298-308
DepFindBackup ==
    /\ DepSteps("find_backup")
    /\ dep' = [dep EXCEPT !.pc = "perform_deployment", !.backupStage = "done",
                          !.BACKUP_CREATED = IF IsDir(fs, BACKUPS_ROOT)
                                             THEN LatestBackup(fs) ELSE @]
    /\ UNCHANGED <<fs, clock, runs, faults, cfg, rb, rbStartFs, sy, syStartFs, depStartFs>>
    /\ UNCHANGED stageVars

\* deploy.sh:311-343 : the sync child is always run in staged mode
DepPerformDeployment ==
    /\ DepSteps("perform_deployment")
    /\ IF dep.DRY_RUN
       THEN /\ dep' = [dep EXCEPT !.pc = "run_post_deployment_validation",
                                  !.DEPLOYMENT_STARTED = TRUE]
            /\ UNCHANGED <<sy, syStartFs>>
       ELSE /\ dep' = [dep EXCEPT !.pc = "sync_running", !.DEPLOYMENT_STARTED = TRUE]
            /\ SyInvoke("deploy", dep.SOURCE, FALSE, dep.VERBOSE, TRUE)
    /\ UNCHANGED <<fs, clock, runs, faults, cfg, rb, rbStartFs, depStartFs>>
    /\ UNCHANGED stageVars

\* the extension stage started whatever the status of the sync
DepSyncReturns_IgnoresStatus ==
    /\ DepSteps("sync_running")
    /\ sy.pc = "done"
    /\ DepGoto("deploy_extensions")
    /\ UNCHANGED <<fs, clock, runs, faults, cfg, rb, rbStartFs, sy, syStartFs, depStartFs>>
    /\ UNCHANGED stageVars

\* deploy.sh:339-343 and 503-506
DepSyncReturns ==
    /\ DepSteps("sync_running")
    /\ sy.pc = "done"
    /\ IF sy.exit = 0 THEN DepGoto("deploy_extensions")
       ELSE dep' = [dep EXCEPT !.pc = "handle_deployment_failure", !.failure = "sync",
                               !.reason = "deployment process failed", !.exitAfter = 1]
    /\ UNCHANGED <<fs, clock, runs, faults, cfg, rb, rbStartFs, sy, syStartFs, depStartFs>>
    /\ UNCHANGED stageVars

\* deploy.sh:345-353 and 503-506
DepDeployExtensions ==
    /\ DepSteps("deploy_extensions")
    /\ IF ExtensionDeployAccepts(fs, dep.FORCE, dep.SOURCE)
       THEN /\ DepGoto("run_post_deployment_validation")
            /\ fs' = MkdirP(fs, TARGET_DIR \o <<"extensions">>)
       ELSE /\ dep' = [dep EXCEPT !.pc = "handle_deployment_failure",
                                  !.failure = "extensions",
                                  !.reason = "deployment process failed", !.exitAfter = 1]
            /\ fs' = fs
    /\ UNCHANGED <<clock, runs, faults, cfg, rb, rbStartFs, sy, syStartFs, depStartFs>>
    /\ UNCHANGED stageVars

\* deploy.sh:359-388 and 492-502
DepPostDeploymentValidation ==
    /\ DepSteps("run_post_deployment_validation")
    /\ IF dep.DRY_RUN THEN DepExit(0)
       ELSE \E valid \in BOOLEAN :
               IF valid THEN DepExit(0)
               ELSE dep' = [dep EXCEPT !.pc = "handle_deployment_failure",
                                       !.failure = "validation",
                                       !.reason = "post-deployment validation failed",
                                       !.exitAfter = 4]
    /\ UNCHANGED <<fs, clock, runs, faults, cfg, rb, rbStartFs, sy, syStartFs, depStartFs>>
    /\ UNCHANGED stageVars

\* deploy.sh:391-415 : the rollback child is started, or the report is made
DepHandleFailure ==
    /\ DepSteps("handle_deployment_failure")
    /\ IF ShouldRollback(dep)
       THEN /\ dep' = [dep EXCEPT !.pc = "rollback_running",
                                  !.rollbacks = Append(@, dep.BACKUP_CREATED)]
            /\ RbInvoke("deploy", dep.BACKUP_CREATED, FALSE, FALSE, FALSE)
       ELSE /\ dep' = [dep EXCEPT !.pc = "done", !.exit = dep.exitAfter,
                                  !.report = @ \cup {"rollback disabled or no backup"}]
            /\ UNCHANGED <<rb, rbStartFs>>
    /\ UNCHANGED <<fs, clock, runs, faults, cfg, sy, syStartFs, depStartFs>>
    /\ UNCHANGED stageVars

\* deploy.sh:402-406, then the exit of main or of trap_cleanup
DepRollbackReturns ==
    /\ DepSteps("rollback_running")
    /\ rb.pc = "done"
    /\ dep' = [dep EXCEPT !.pc = "done", !.exit = dep.exitAfter,
                          !.report = @ \cup {IF rb.exit = 0 THEN "rollback completed"
                                             ELSE "rollback failed"}]
    /\ UNCHANGED <<fs, clock, runs, faults, cfg, rb, rbStartFs, sy, syStartFs, depStartFs>>
    /\ UNCHANGED stageVars

\* deploy.sh:471 : INT or TERM arrives.  Sent to the process group it also
\* ends the running child, which installs no handler.
DepSignal ==
    /\ DepRunning
    /\ ~dep.sig
    /\ Fault
    /\ dep' = [dep EXCEPT !.sig = TRUE]
    /\ \E group \in BOOLEAN :
          IF group /\ SyRunning /\ sy.caller = "deploy"
          THEN SyExit(130) /\ rb' = rb
          ELSE IF group /\ RbRunning /\ rb.caller = "deploy"
          THEN RbExit(130) /\ sy' = sy
          ELSE sy' = sy /\ rb' = rb
    /\ UNCHANGED <<fs, clock, runs, cfg, rbStartFs, syStartFs, depStartFs>>
    /\ UNCHANGED stageVars

\* deploy.sh:456-468 : trap_cleanup, run once no child is in the foreground
DepTrapCleanup ==
    /\ DepRunning
    /\ dep.sig
    /\ ~ChildRunning
    /\ IF dep.DEPLOYMENT_STARTED /\ dep.ROLLBACK_ON_FAILURE
       THEN dep' = [dep EXCEPT !.pc = "handle_deployment_failure", !.sig = FALSE,
                               !.trapped = TRUE, !.reason = "deployment interrupted",
                               !.exitAfter = 1]
       ELSE dep' = [dep EXCEPT !.pc = "done", !.sig = FALSE, !.trapped = TRUE, !.exit = 1]
    /\ UNCHANGED <<fs, clock, runs, faults, cfg, rb, rbStartFs, sy, syStartFs, depStartFs>>
    /\ UNCHANGED stageVars

InitRollback ==
    /\ \E targetThere \in {TRUE}, backup \in InitialBackups :
          fs = {Dir(SOURCE_DIR)} \cup At(SOURCE_DIR, SourceTree)
               \cup (IF targetThere THEN {Dir(TARGET_DIR)} \cup At(TARGET_DIR, TargetTree)
                     ELSE {})
               \cup {Dir(BACKUPS_ROOT), Dir(InitialBackup)}
               \cup At(InitialBackup, backup)
    /\ cfg = [exclude_patterns |-> <<>>, rsync_options |-> {"--archive", "--verbose"}]
    /\ clock = 0
    /\ runs = 0
    /\ faults = 0
    /\ rb = RbIdle
    /\ rbStartFs = {}
    /\ sy = SyIdle
    /\ syStartFs = {}
    /\ dep = DepIdle
    /\ depStartFs = {}
    /\ ext = ExtIdle /\ dbk = DbkIdle /\ fbk = FbkIdle /\ mv = MvIdle

NoScriptRunning ==
    /\ rb.pc \in {"idle", "done"}
    /\ sy.pc \in {"idle", "done"}
    /\ dep.pc \in {"idle", "done"}

\* the operator runs rollback.sh
StartRollback ==
    /\ runs < MaxRuns
    /\ NoScriptRunning
    /\ \E backup \in BackupCandidates(fs), dry \in BOOLEAN, force \in BOOLEAN,
          verifyOnly \in BOOLEAN :
          RbInvoke("operator", backup, dry, force, verifyOnly)
    /\ runs' = runs + 1
    /\ clock' = clock + 1
    /\ UNCHANGED <<fs, faults, cfg, sy, syStartFs, dep, depStartFs>>
    /\ UNCHANGED stageVars

\* the operator runs sync-code.sh
StartSync ==
    /\ runs < MaxRuns
    /\ NoScriptRunning
    /\ \E source \in {SOURCE_DIR, <<"no-such-source">>}, dry \in BOOLEAN,
          verbose \in BOOLEAN, staging \in BOOLEAN :
          SyInvoke("operator", source, dry, verbose, staging)
    /\ runs' = runs + 1
    /\ clock' = clock + 1
    /\ UNCHANGED <<fs, faults, cfg, rb, rbStartFs, dep, depStartFs>>
    /\ UNCHANGED stageVars

InitSync ==
    /\ \E targetThere \in BOOLEAN :
          fs = {Dir(SOURCE_DIR)} \cup At(SOURCE_DIR, SourceTree)
               \cup (IF targetThere THEN {Dir(TARGET_DIR)} \cup At(TARGET_DIR, TargetTree)
                     ELSE {})
    /\ cfg \in [exclude_patterns : ExcludePolicies, rsync_options : RsyncOptionSets]
    /\ clock = 0
    /\ runs = 0
    /\ faults = 0
    /\ rb = RbIdle
    /\ rbStartFs = {}
    /\ sy = SyIdle
    /\ syStartFs = {}
    /\ dep = DepIdle
    /\ depStartFs = {}
    /\ ext = ExtIdle /\ dbk = DbkIdle /\ fbk = FbkIdle /\ mv = MvIdle

NextSync ==
    \/ StartSync
    \/ SyValidateDirectories
    \/ SyCreateStaging
    \/ SyPerformSync
    \/ SyPromoteCopy
    \/ SyPromoteMoveTarget
    \/ SyPromoteMoveNew
    \/ SyPromoteCleanup
    \/ SyInterrupt

SpecSync == InitSync /\ [][NextSync]_vars

NextRollback ==
    \/ StartRollback
    \/ RbValidateParameters
    \/ RbVerifyBackup
    \/ RbConfirm
    \/ RbBackupCurrentState
    \/ RbCreateStaging
    \/ RbRestore
    \/ RbPreserve
    \/ RbMvTargetAside
    \/ RbMvStagingIn
    \/ RbVerifyRollback
    \/ RbInterrupt

SpecRollback == InitRollback /\ [][NextRollback]_vars

\* deploy.sh:90-147 : the command lines tried
DeployCommandLines ==
    SUBSET {"--dry-run", "--skip-backup", "--no-rollback"}
        \cup {{"--verbose"}, {"--force"}, {"--skip-checks"}, {"--source no-such-source"},
              {"--bogus"}}

\* the operator runs deploy.sh
StartDeploy ==
    /\ runs < MaxDeploys
    /\ NoScriptRunning
    /\ \E options \in DeployCommandLines :
          dep' = [DepIdle EXCEPT !.pc = IF "--bogus" \in options THEN "done"
                                        ELSE "setup_deployment_logging",
                                 !.exit = IF "--bogus" \in options THEN 2 ELSE -1,
                                 !.aborted = IF "--bogus" \in options THEN "usage"
                                             ELSE "none",
                                 !.SOURCE = IF "--source no-such-source" \in options
                                            THEN <<"no-such-source">> ELSE SOURCE_DIR,
                                 !.DRY_RUN = "--dry-run" \in options,
                                 !.VERBOSE = "--verbose" \in options,
                                 !.FORCE = "--force" \in options,
                                 !.SKIP_BACKUP = "--skip-backup" \in options,
                                 !.SKIP_CHECKS = "--skip-checks" \in options,
                                 !.ROLLBACK_ON_FAILURE = "--no-rollback" \notin options]
    /\ depStartFs' = fs
    /\ rb' = RbIdle
    /\ rbStartFs' = {}
    /\ sy' = SyIdle
    /\ syStartFs' = {}
    /\ runs' = runs + 1
    /\ clock' = clock + 1
    /\ UNCHANGED <<fs, faults, cfg>>
    /\ UNCHANGED stageVars

\* deploy-config.json as documented, with no exclude_patterns, and with no
\* exclude_patterns and --mkpath among the rsync_options
DeployConfigs ==
    { [exclude_patterns |-> <<"data/", "uploads/", "backups/", ".env*", "*.log">>,
       rsync_options |-> {"--archive", "--verbose"}],
      [exclude_patterns |-> <<>>, rsync_options |-> {"--archive", "--verbose"}],
      [exclude_patterns |-> <<>>, rsync_options |-> {"--archive", "--mkpath"}] }

\* a backup an operator made earlier, under a name of their choosing
OperatorBackupNames == {"backup-A", "site-backup"}

Init ==
    /\ \E targetThere \in BOOLEAN, name \in OperatorBackupNames :
          fs = {Dir(SOURCE_DIR)} \cup At(SOURCE_DIR, SourceTree)
               \cup (IF targetThere THEN {Dir(TARGET_DIR)} \cup At(TARGET_DIR, TargetTree)
                     ELSE {})
               \cup {Dir(BACKUPS_ROOT), Dir(BACKUPS_ROOT \o <<name>>)}
               \cup At(BACKUPS_ROOT \o <<name>>, CodeV1 \cup FreshMetadata)
    /\ cfg \in DeployConfigs
    /\ clock = 0
    /\ runs = 0
    /\ faults = 0
    /\ rb = RbIdle
    /\ rbStartFs = {}
    /\ sy = SyIdle
    /\ syStartFs = {}
    /\ dep = DepIdle
    /\ depStartFs = {}
    /\ ext = ExtIdle /\ dbk = DbkIdle /\ fbk = FbkIdle /\ mv = MvIdle

Next ==
    \/ StartDeploy
    \/ DepSetupLogging
    \/ DepValidatePrerequisites
    \/ DepPreDeploymentChecks
    \/ DepBackupDatabase
    \/ DepBackupFiles
    \/ DepFindBackup
    \/ DepPerformDeployment
    \/ DepSyncReturns
    \/ DepDeployExtensions
    \/ DepPostDeploymentValidation
    \/ DepHandleFailure
    \/ DepRollbackReturns
    \/ DepSignal
    \/ DepTrapCleanup
    \/ SyValidateDirectories
    \/ SyCreateStaging
    \/ SyPerformSync
    \/ SyPromoteCopy
    \/ SyPromoteMoveTarget
    \/ SyPromoteMoveNew
    \/ SyPromoteCleanup
    \/ SyInterrupt
    \/ RbValidateParameters
    \/ RbVerifyBackup
    \/ RbConfirm
    \/ RbBackupCurrentState
    \/ RbCreateStaging
    \/ RbRestore
    \/ RbPreserve
    \/ RbMvTargetAside
    \/ RbMvStagingIn
    \/ RbVerifyRollback
    \/ RbInterrupt

Spec == Init /\ [][Next]_vars


(***************************************************************************)
(* Properties of rollback.sh                                               *)
(***************************************************************************)
RbLive == rb.pc # "idle" /\ ~rb.DRY_RUN
PreservedIn(f, dir) == Subtree(f, TARGET_DIR \o <<dir>>)

\* C2: once a rollback has completed its restore, uploads/ and data/ of the
\* target hold exactly the files they held immediately before the rollback.
C2_RollbackKeepsUserData ==
    (RbLive /\ rb.promoted /\ rb.failed = {})
        => \A dir \in {"uploads", "data"} : PreservedIn(fs, dir) = PreservedIn(rbStartFs, dir)

\* C7: when backup verification reports issues, with or without --force, the
\* run ends with exit status 2 and the target is not modified.
C7_NoRestoreAfterFailedVerification ==
    rb.issues > 0 => /\ rb.pc = "done"
                     /\ rb.exit = 2
                     /\ Subtree(fs, TARGET_DIR) = Subtree(rbStartFs, TARGET_DIR)
                     /\ ~rb.promoted
C7_Witness == rb.pc = "done" /\ rb.issues > 0 /\ rb.FORCE /\ rb.exit = 2

\* C8: a staging directory whose restore or copy-forward step failed is never
\* promoted.
C8_NoPromotionAfterFailedStep ==
    rb.promoted => rb.failed \cap {"restore", "preserve"} = {}

\* C9: wherever a rollback run stops, the target path holds the complete
\* pre-rollback tree or the complete restored tree, and is never absent.
C9_TargetCompleteWhenStopped ==
    (rb.pc = "done" /\ ~rb.DRY_RUN /\ IsDir(rbStartFs, TARGET_DIR))
        => /\ IsDir(fs, TARGET_DIR)
           /\ \/ TreeAt(fs, TARGET_DIR) = TreeAt(rbStartFs, TARGET_DIR)
              \/ TreeAt(fs, TARGET_DIR) = rb.staged

\* C10: a rollback whose --backup is a pre-rollback backup captured by an
\* earlier live rollback passes backup verification.
IsPreRollbackBackup(f, B) ==
    /\ IsFile(f, B \o <<METADATA>>)
    /\ NodeAt(f, B \o <<METADATA>>).c = "pre-rollback"
C10_PreRollbackBackupVerifies ==
    (/\ RbLive
     /\ IsPreRollbackBackup(rbStartFs, rb.BACKUP_DIR)
     /\ rb.pc \notin {"validate_parameters", "verify_backup_integrity"}
     /\ rb.exit # 130)
        => rb.issues = 0

(***************************************************************************)
(* Properties of sync-code.sh                                              *)
(***************************************************************************)
SyLive == sy.pc # "idle" /\ ~sy.DRY_RUN
PreservedFiles(f) ==
    {n \in f : n.k = "file" /\ \E dir \in {"uploads", "data"} :
                                  IsPrefix(TARGET_DIR \o <<dir>>, n.p)}
PolicyListsPreserved == {"uploads/", "data/"} \subseteq build_exclude_patterns(cfg)

\* C1: a live sync that completes successfully, staged or not, against a
\* target holding uploads/ and data/, under an exclusion policy that lists
\* them, leaves every file that was under those directories in place with
\* the same content.
C1_SyncKeepsPreservedFiles ==
    (/\ SyLive /\ sy.pc = "done" /\ sy.exit = 0
     /\ PolicyListsPreserved
     /\ IsDir(syStartFs, TARGET_DIR \o <<"uploads">>)
     /\ IsDir(syStartFs, TARGET_DIR \o <<"data">>))
        => PreservedFiles(syStartFs) \subseteq fs

\* C3: in a live staged sync over an existing target, up to the final rename
\* the target exists with exactly its previous content, and from the final
\* rename on it holds exactly the staged content.
C3_AtomicPromotion ==
    (SyLive /\ sy.USE_STAGING /\ IsDir(syStartFs, TARGET_DIR))
        => IF sy.renamed
           THEN IsDir(fs, TARGET_DIR) /\ TreeAt(fs, TARGET_DIR) = sy.staged
           ELSE Subtree(fs, TARGET_DIR) = Subtree(syStartFs, TARGET_DIR)

(***************************************************************************)
(* Properties of deploy.sh                                                 *)
(***************************************************************************)
DepLive == dep.pc # "idle" /\ ~dep.DRY_RUN
BackupReferenceExists == dep.BACKUP_CREATED # <<>>
AutoRollbackEnabled == dep.ROLLBACK_ON_FAILURE
ManualInterventionReported == "rollback disabled or no backup" \in dep.report

C5_SignalHandledAsFailure ==
    (DepLive /\ dep.pc = "done" /\ dep.trapped)
        => IF BackupReferenceExists /\ AutoRollbackEnabled
           THEN Len(dep.rollbacks) >= 1
           ELSE ManualInterventionReported

\* C6: in a live run the target tree is as it was when the run started for
\* as long as the backup stage has neither completed nor been skipped, also
\* after the run has aborted in that phase.
C6_NoChangeBeforeBackup ==
    (DepLive /\ dep.backupStage = "pending")
        => Subtree(fs, TARGET_DIR) = Subtree(depStartFs, TARGET_DIR)

(***************************************************************************)
(* Further properties of rollback.sh                                       *)
(***************************************************************************)
SiblingDirs(f) == {n.p : n \in {m \in f : m.k = "dir" /\ Len(m.p) = 1 /\ m.p # TARGET_DIR}}
\* perform_rollback has logged its success and no command in it failed
RollbackReportedSuccess == RbLive /\ rb.pc = "verify_rollback" /\ rb.failed = {}

\* C11: after a live rollback whose promotion reported success, the first
\* one and any later one, the target holds the restored tree and the tree
\* that was at the target before the promotion exists, whole, as a sibling
\* directory of the target.
C11_OldTargetRetained ==
    RollbackReportedSuccess
        => /\ TreeAt(fs, TARGET_DIR) = rb.staged
           /\ \E s \in SiblingDirs(fs) : TreeAt(fs, s) = TreeAt(rbStartFs, TARGET_DIR)

\* a backup whose only finding is its age: readable metadata with a usable
\* timestamp more than STALE_DAYS old, and no empty database dump
OnlyStale(f, B) ==
    LET meta == B \o <<METADATA>>
        db == B \o <<"database.sql">>
    IN  /\ IsFile(f, meta)
        /\ NodeAt(f, meta).c # "badjson"
        /\ NodeAt(f, meta).ts.fmt = "ISO"
        /\ Today - NodeAt(f, meta).ts.day > STALE_DAYS
        /\ ~(IsFile(f, db) /\ NodeAt(f, db).c = "")
RbVerified == rb.pc \notin {"idle", "validate_parameters", "verify_backup_integrity"}

\* C12: a backup older than the staleness threshold that is otherwise sound
\* passes the live verification of rollback.sh: no issue is counted for its
\* age and the run is not ended with status 2.
C12_StaleBackupOnlyWarns ==
    (RbLive /\ RbVerified /\ OnlyStale(rbStartFs, rb.BACKUP_DIR))
        => rb.issues = 0 /\ rb.exit # 2

(***************************************************************************)
(* Further properties of deploy.sh                                         *)
(***************************************************************************)
\* the status deploy.sh documents for the outcome of a run
DocumentedExit ==
    IF dep.aborted \in {"usage", "prerequisites", "checks"} THEN 2
    ELSE IF dep.aborted = "backup" THEN 3
    ELSE IF dep.failure \in {"sync", "extensions"} THEN 1
    ELSE IF dep.failure = "validation" THEN 4
    ELSE 0

DryRunDeploy ==
    /\ runs < MaxRuns
    /\ NoScriptRunning
    /\ \E options \in DeployCommandLines \ {{"--bogus"}} :
          dep' = [DepIdle EXCEPT !.pc = "setup_deployment_logging",
                                 !.SOURCE = IF "--source no-such-source" \in options
                                            THEN <<"no-such-source">> ELSE SOURCE_DIR,
                                 !.DRY_RUN = TRUE,
                                 !.VERBOSE = "--verbose" \in options,
                                 !.FORCE = "--force" \in options,
                                 !.SKIP_BACKUP = "--skip-backup" \in options,
                                 !.SKIP_CHECKS = "--skip-checks" \in options,
                                 !.ROLLBACK_ON_FAILURE = "--no-rollback" \notin options]
    /\ depStartFs' = fs
    /\ runs' = runs + 1
    /\ clock' = clock + 1
    /\ rb' = RbIdle /\ sy' = SyIdle
    /\ UNCHANGED <<fs, faults, cfg, rbStartFs, syStartFs>>
    /\ UNCHANGED stageVars

DryRunSync ==
    /\ runs < MaxRuns
    /\ NoScriptRunning
    /\ \E source \in {SOURCE_DIR, <<"no-such-source">>}, verbose \in BOOLEAN,
          staging \in BOOLEAN :
          SyInvoke("operator", source, TRUE, verbose, staging)
    /\ runs' = runs + 1
    /\ clock' = clock + 1
    /\ rb' = RbIdle /\ dep' = DepIdle
    /\ UNCHANGED <<fs, faults, cfg, rbStartFs, depStartFs>>
    /\ UNCHANGED stageVars

DryRunRollback ==
    /\ runs < MaxRuns
    /\ NoScriptRunning
    /\ \E backup \in BackupCandidates(fs), force \in BOOLEAN, verifyOnly \in BOOLEAN :
          RbInvoke("operator", backup, TRUE, force, verifyOnly)
    /\ runs' = runs + 1
    /\ clock' = clock + 1
    /\ sy' = SyIdle /\ dep' = DepIdle
    /\ UNCHANGED <<fs, faults, cfg, syStartFs, depStartFs>>
    /\ UNCHANGED stageVars

InitDryRun ==
    /\ \E targetThere \in BOOLEAN, backup \in InitialBackups :
          fs = {Dir(SOURCE_DIR)} \cup At(SOURCE_DIR, SourceTree)
               \cup (IF targetThere THEN {Dir(TARGET_DIR)} \cup At(TARGET_DIR, TargetTree)
                     ELSE {})
               \cup {Dir(BACKUPS_ROOT), Dir(InitialBackup)}
               \cup At(InitialBackup, backup)
    /\ cfg \in DeployConfigs
    /\ clock = 0
    /\ runs = 0
    /\ faults = 0
    /\ rb = RbIdle
    /\ rbStartFs = {}
    /\ sy = SyIdle
    /\ syStartFs = {}
    /\ dep = DepIdle
    /\ depStartFs = {}
    /\ ext = ExtIdle /\ dbk = DbkIdle /\ fbk = FbkIdle /\ mv = MvIdle

\* the steps a dry run can take
NextDryRun ==
    \/ DryRunDeploy
    \/ DryRunSync
    \/ DryRunRollback
    \/ DepSetupLogging
    \/ DepValidatePrerequisites
    \/ DepPreDeploymentChecks
    \/ DepBackupDatabase
    \/ DepPerformDeployment
    \/ DepPostDeploymentValidation
    \/ DepHandleFailure
    \/ DepSignal
    \/ DepTrapCleanup
    \/ SyValidateDirectories
    \/ SyCreateStaging
    \/ SyPerformSync
    \/ SyPromoteCopy
    \/ SyInterrupt
    \/ RbValidateParameters
    \/ RbVerifyBackup
    \/ RbConfirm
    \/ RbBackupCurrentState
    \/ RbCreateStaging
    \/ RbVerifyRollback
    \/ RbInterrupt

SpecDryRun == InitDryRun /\ [][NextDryRun]_vars

MetadataUnusable(f, B) ==
    \/ ~IsFile(f, B \o <<METADATA>>)
    \/ NodeAt(f, B \o <<METADATA>>).c = "badjson"

\* C15: a backup that a live rollback rejects for its missing or invalid
\* metadata is rejected by a --dry-run rollback too: the dry run ends at the
\* verification with status 2 and goes no further.
C15_DryRunStillValidates ==
    (rb.DRY_RUN /\ RbVerified /\ MetadataUnusable(rbStartFs, rb.BACKUP_DIR))
        => rb.pc = "done" /\ rb.exit = 2

\* C16: rollback.sh --verify-only ends with status 0 only for a backup
\* without issues; for a backup without its metadata file it ends non-zero
\* whatever other options are given.
C16_VerifyOnlyFailsWithoutMetadata ==
    (rb.VERIFY_ONLY /\ rb.pc = "done")
        => /\ rb.exit = 0 => verify_backup_integrity(rbStartFs, rb.BACKUP_DIR) = 0
           /\ ~IsFile(rbStartFs, rb.BACKUP_DIR \o <<METADATA>>) => rb.exit # 0

\* C17: a sync-code.sh run whose --source does not exist ends with status 2
\* and the file system is the one the run started from.
C17_MissingSourceExitsTwo ==
    (sy.caller = "operator" /\ sy.pc = "done" /\ ~IsDir(syStartFs, sy.SOURCE))
        => sy.exit = 2 /\ fs = syStartFs

(***************************************************************************)
(* deploy-extensions.sh, run by the operator.                              *)
(***************************************************************************)
SOURCE_EXTENSIONS_DIR == <<"extensions">>
TARGET_EXTENSIONS_DIR == TARGET_DIR \o <<"extensions">>
ExtensionsBackupName == <<"extensions.backup-1", "extensions.backup-2",
                          "extensions.backup-3", "extensions.backup-4">>
\* deploy-extensions.sh:203-205 : the exclusions used when the configuration
\* lists none for extension_sync
EXTENSION_FALLBACK_EXCLUDES == {"node_modules/", ".git/", "*.log", ".tmp/", ".cache/"}

\* deploy-extensions.sh:187-209 : the number of lines the function writes to
\* stdout, all of which deploy_extension captures as exclude_patterns;
\* verbose_log writes to stdout too
get_extension_exclude_patterns(verbose) == IF verbose THEN 3 ELSE 1

\* deploy-extensions.sh:212-244 : 0 when the plugin has its manifest
validate_extension(f, dir) == IF IsFile(f, dir \o <<"package.json">>) THEN 0 ELSE 1

\* deploy-extensions.sh:247-300 : [ret, fs].  eval runs the command text line
\* by line, so rsync is given the plugin's source and destination only when
\* the captured exclusions are one line; the function is called under
\* "if !", so a failing eval does not end it and its status is the one of
\* the verbose_log that follows.
deploy_extension(f, source, name, verbose, dry) ==
    LET source_ext_dir == source \o <<name>>
        target_ext_dir == TARGET_EXTENSIONS_DIR \o <<name>>
        made == MkdirP(f, target_ext_dir)
    IN  IF validate_extension(f, source_ext_dir) # 0 THEN [ret |-> 1, fs |-> f]
        ELSE IF dry THEN [ret |-> 0, fs |-> f]
        ELSE IF get_extension_exclude_patterns(verbose) = 1
        THEN [ret |-> 0,
              fs |-> Rsync(made, source_ext_dir, target_ext_dir,
                           EXTENSION_FALLBACK_EXCLUDES, {"--archive", "--delete"}).fs]
        ELSE [ret |-> 0, fs |-> made]

\* deploy-extensions.sh:322-326 : grep -q '"dependencies"' package.json
HasDependencies(f, dir) ==
    /\ IsFile(f, dir \o <<"package.json">>)
    /\ NodeAt(f, dir \o <<"package.json">>).c = "manifest-with-dependencies"

\* deploy-extensions.sh:303-365 : whether the package manager is run at all
InstallsDependencies(f, name, dry) ==
    ~dry /\ HasDependencies(f, TARGET_EXTENSIONS_DIR \o <<name>>)

ExtRunning == ext.pc \notin {"idle", "done"}
ExtExit(code) == ext' = [ext EXCEPT !.pc = "done", !.exit = code]
ExtGoto(pc) == ext' = [ext EXCEPT !.pc = pc]

\* deploy-extensions.sh:486-524 : argument parsing, then main is entered
StartExtensions ==
    /\ runs < MaxRuns
    /\ ~ExtRunning
    /\ \E source \in {SOURCE_EXTENSIONS_DIR, <<"no-such-source">>},
          dry \in BOOLEAN, verbose \in BOOLEAN :
          ext' = [ExtIdle EXCEPT !.pc = "validate_directories", !.SOURCE = source,
                                 !.DRY_RUN = dry, !.VERBOSE = verbose, !.start = fs]
    /\ runs' = runs + 1
    /\ clock' = clock + 1
    /\ UNCHANGED <<fs, faults, cfg, rb, rbStartFs, sy, syStartFs, dep, depStartFs, dbk, fbk>>
    /\ UNCHANGED mv

\* deploy-extensions.sh:84-120
ExtValidateDirectories ==
    /\ ext.pc = "validate_directories"
    /\ IF ~IsDir(fs, ext.SOURCE) THEN ExtExit(1) /\ fs' = fs
       ELSE /\ ExtGoto("scan_extensions")
            /\ fs' = IF ext.DRY_RUN THEN fs ELSE MkdirP(fs, TARGET_EXTENSIONS_DIR)
    /\ UNCHANGED <<clock, runs, faults, cfg, rb, rbStartFs, sy, syStartFs, dep, depStartFs,
                   dbk, fbk>>
    /\ UNCHANGED mv

\* the names find -mindepth 1 -maxdepth 1 -type d gives, less the hidden ones
IsHidden(name) == name \in {".hidden"}
ExtensionDirs(f, source) ==
    {Last(n.p) : n \in {m \in f : m.k = "dir" /\ Parent(m.p) = source}}
Orders(S) ==
    {q \in [1..Cardinality(S) -> S] : \A a, b \in 1..Cardinality(S) : q[a] = q[b] => a = b}

\* deploy-extensions.sh:123-151 : the list file holds the names in the order
\* find printed them; it is not written when there is no name
ExtScanExtensions ==
    /\ ext.pc = "scan_extensions"
    /\ LET found == {name \in ExtensionDirs(fs, ext.SOURCE) : ~IsHidden(name)}
       IN  \E order \in Orders(found) :
              ext' = [ext EXCEPT !.pc = "backup_existing_extensions",
                                 !.list = order, !.listed = found # {}]
    /\ UNCHANGED <<fs, clock, runs, faults, cfg, rb, rbStartFs, sy, syStartFs, dep,
                   depStartFs, dbk, fbk>>
    /\ UNCHANGED mv

\* deploy-extensions.sh:154-184
ExtBackupExisting ==
    /\ ext.pc = "backup_existing_extensions"
    /\ ExtGoto("deploy")
    /\ fs' = IF /\ ~ext.DRY_RUN
                /\ IsDir(fs, TARGET_EXTENSIONS_DIR)
                /\ Under(fs, TARGET_EXTENSIONS_DIR) # {}
             THEN CpR(fs, TARGET_EXTENSIONS_DIR,
                      TARGET_DIR \o <<ExtensionsBackupName[clock]>>).fs
             ELSE fs
    /\ UNCHANGED <<clock, runs, faults, cfg, rb, rbStartFs, sy, syStartFs, dep, depStartFs,
                   dbk, fbk>>
    /\ UNCHANGED mv

\* deploy-extensions.sh:446-461 : one turn of the loop over the list in main
ExtDeployNext ==
    /\ ext.pc = "deploy"
    /\ ext.listed /\ ext.i <= Len(ext.list)
    /\ LET name == ext.list[ext.i]
           deployed == deploy_extension(fs, ext.SOURCE, name, ext.VERBOSE, ext.DRY_RUN)
       IN  IF deployed.ret # 0
           THEN /\ ext' = [ext EXCEPT !.i = @ + 1, !.deployment_failed = TRUE,
                                      !.reported = @ \cup {name}]
                /\ fs' = deployed.fs
           ELSE IF InstallsDependencies(deployed.fs, name, ext.DRY_RUN)
           THEN \E installed \in BOOLEAN :
                   IF installed
                   THEN /\ ext' = [ext EXCEPT !.i = @ + 1]
                        /\ fs' = MkdirP(deployed.fs,
                                        TARGET_EXTENSIONS_DIR \o <<name, "node_modules">>)
                   ELSE /\ ext' = [ext EXCEPT !.i = @ + 1, !.deployment_failed = TRUE,
                                              !.reported = @ \cup {name},
                                              !.installFailed = @ \cup {name}]
                        /\ fs' = deployed.fs
           ELSE /\ ext' = [ext EXCEPT !.i = @ + 1]
                /\ fs' = deployed.fs
    /\ UNCHANGED <<clock, runs, faults, cfg, rb, rbStartFs, sy, syStartFs, dep, depStartFs,
                   dbk, fbk>>
    /\ UNCHANGED mv

\* deploy-extensions.sh:391-434 : the names verify_deployment finds missing
failed_extensions(f, e) ==
    IF ~e.listed \/ e.DRY_RUN THEN {}
    ELSE {e.list[j] : j \in {k \in 1..Len(e.list) :
              \/ ~IsDir(f, TARGET_EXTENSIONS_DIR \o <<e.list[k]>>)
              \/ ~IsFile(f, TARGET_EXTENSIONS_DIR \o <<e.list[k], "package.json">>)}}

\* deploy-extensions.sh:464-482 : set_extension_permissions, verify_deployment
\* and the exit status
ExtVerifyDeployment ==
    /\ ext.pc = "deploy"
    /\ ~ext.listed \/ ext.i > Len(ext.list)
    /\ LET failed == failed_extensions(fs, ext)
       IN  ext' = [ext EXCEPT !.pc = "done", !.verified = TRUE,
                              !.reported = @ \cup failed,
                              !.exit = IF ext.deployment_failed \/ failed # {}
                                       THEN 1 ELSE 0]
    /\ UNCHANGED <<fs, clock, runs, faults, cfg, rb, rbStartFs, sy, syStartFs, dep,
                   depStartFs, dbk, fbk>>
    /\ UNCHANGED mv

\* plugins in the source directory
AlphaPlugin == {Dir(<<"alpha">>), File(<<"alpha", "package.json">>, "manifest"),
                Dir(<<"alpha", "dist">>), File(<<"alpha", "dist", "index.js">>, "alpha-v2"),
                Dir(<<"alpha", "node_modules">>),
                File(<<"alpha", "node_modules", "dep.js">>, "dep")}
BetaPlugin == {Dir(<<"beta">>),
               File(<<"beta", "package.json">>, "manifest-with-dependencies"),
               File(<<"beta", "index.js">>, "beta-v1")}
BrokenPlugin == {Dir(<<"broken">>), File(<<"broken", "index.js">>, "broken-v1")}
HiddenPlugin == {Dir(<<".hidden">>), File(<<".hidden", "package.json">>, "manifest")}
\* what the target may hold from an earlier deployment
DeployedExtensions ==
    { {},
      {Dir(<<"alpha">>), File(<<"alpha", "package.json">>, "manifest"),
       File(<<"alpha", "stale.js">>, "alpha-v1")} }

InitExtensions ==
    /\ \E plugins \in SUBSET {AlphaPlugin, BetaPlugin, BrokenPlugin, HiddenPlugin},
          targetThere \in BOOLEAN, deployed \in DeployedExtensions :
          fs = {Dir(SOURCE_EXTENSIONS_DIR)}
               \cup At(SOURCE_EXTENSIONS_DIR, UNION plugins)
               \cup {Dir(TARGET_DIR)}
               \cup (IF targetThere
                     THEN {Dir(TARGET_EXTENSIONS_DIR)} \cup At(TARGET_EXTENSIONS_DIR, deployed)
                     ELSE {})
    /\ cfg = [exclude_patterns |-> <<>>, rsync_options |-> {"--archive", "--verbose"}]
    /\ clock = 0
    /\ runs = 0
    /\ faults = 0
    /\ rb = RbIdle
    /\ rbStartFs = {}
    /\ sy = SyIdle
    /\ syStartFs = {}
    /\ dep = DepIdle
    /\ depStartFs = {}
    /\ ext = ExtIdle /\ dbk = DbkIdle /\ fbk = FbkIdle /\ mv = MvIdle

NextExtensions ==
    \/ StartExtensions
    \/ ExtValidateDirectories
    \/ ExtScanExtensions
    \/ ExtBackupExisting
    \/ ExtDeployNext
    \/ ExtVerifyDeployment

SpecExtensions == InitExtensions /\ [][NextExtensions]_vars

ExtLive == ext.pc = "done" /\ ext.verified /\ ~ext.DRY_RUN
WellFormed(f, source, name) == IsFile(f, source \o <<name, "package.json">>)
PluginsAtStart == {name \in ExtensionDirs(ext.start, ext.SOURCE) : ~IsHidden(name)}
FullyDeployed(name) ==
    RsyncItems(ext.start, ext.SOURCE \o <<name>>, TARGET_EXTENSIONS_DIR \o <<name>>,
               EXTENSION_FALLBACK_EXCLUDES) \subseteq fs

\* C18: a live deploy-extensions.sh run has attempted every non-hidden
\* plugin directory; a plugin without package.json is reported as failed,
\* every well-formed plugin is in the target with all of its files, and the
\* exit status is non-zero exactly when a plugin failed (its manifest is
\* missing or its dependencies could not be installed).
C18_EveryPluginAttempted ==
    ExtLive =>
        /\ Range(ext.list) = PluginsAtStart
        /\ ext.i = Len(ext.list) + 1 \/ ~ext.listed
        /\ \A name \in PluginsAtStart :
              IF WellFormed(ext.start, ext.SOURCE, name)
              THEN FullyDeployed(name)
              ELSE name \in ext.reported
        /\ ext.exit # 0 <=> \E name \in PluginsAtStart :
                               \/ ~WellFormed(ext.start, ext.SOURCE, name)
                               \/ name \in ext.installFailed

(***************************************************************************)
(* backup-database.sh and backup-files.sh, run by the operator.            *)
(***************************************************************************)
\* what main holds after x=$(create_backup_directory): with --verbose the
\* verbose_log line comes first in the captured text, and the text used as
\* one path names a directory below one named after that line
BackupShellPath(verbose, path) ==
    IF verbose THEN <<"[date] VERBOSE: Creating backup directory: ">> \o path ELSE path

DbkRunning == dbk.pc \notin {"idle", "done"}
DbkExit(code) == dbk' = [dbk EXCEPT !.pc = "done", !.exit = code]
DbkGoto(pc) == dbk' = [dbk EXCEPT !.pc = pc]
FbkRunning == fbk.pc \notin {"idle", "done"}
FbkExit(code) == fbk' = [fbk EXCEPT !.pc = "done", !.exit = code]
FbkGoto(pc) == fbk' = [fbk EXCEPT !.pc = pc]

\* backup-database.sh:250-273 : argument parsing, then main is entered
StartDbBackup ==
    /\ runs < MaxRuns
    /\ ~DbkRunning /\ ~FbkRunning
    /\ \E dry \in BOOLEAN, verbose \in BOOLEAN :
          dbk' = [DbkIdle EXCEPT !.pc = "check_prerequisites", !.DRY_RUN = dry,
                                 !.VERBOSE = verbose]
    /\ runs' = runs + 1
    /\ clock' = clock + 1
    /\ UNCHANGED <<fs, faults, cfg, rb, rbStartFs, sy, syStartFs, dep, depStartFs, ext, fbk>>
    /\ UNCHANGED mv

\* backup-database.sh:74-115 : pg_dump must be installed and, in a live run,
\* the server must answer pg_isready
DbkCheckPrerequisites ==
    /\ dbk.pc = "check_prerequisites"
    /\ \E installed \in BOOLEAN, ready \in BOOLEAN :
          IF installed /\ (ready \/ dbk.DRY_RUN) THEN DbkGoto("create_backup_directory")
          ELSE DbkExit(1)
    /\ UNCHANGED <<fs, clock, runs, faults, cfg, rb, rbStartFs, sy, syStartFs, dep,
                   depStartFs, ext, fbk>>
    /\ UNCHANGED mv

\* backup-database.sh:118-130 and 235-246
DbkCreateBackupDirectory ==
    /\ dbk.pc = "create_backup_directory"
    /\ LET backup_dir == BACKUPS_ROOT \o <<DbBackupName[clock]>>
       IN  IF dbk.DRY_RUN
           THEN DbkExit(0) /\ fs' = fs
           ELSE /\ dbk' = [dbk EXCEPT !.pc = "create_database_dump",
                                      !.backup_dir = BackupShellPath(dbk.VERBOSE, backup_dir)]
                /\ fs' = MkdirP(fs, backup_dir)
    /\ UNCHANGED <<clock, runs, faults, cfg, rb, rbStartFs, sy, syStartFs, dep, depStartFs,
                   ext, fbk>>
    /\ UNCHANGED mv

\* the ways pg_dump --file=F can end: the dump written (status 0), or status
\* 1 with no file or with a zero-byte file; it cannot create F below a
\* directory that does not exist
PgDumpOutcomes(f, dump_file) ==
    IF IsDir(f, Parent(dump_file)) THEN {"dumped", "failed", "failed-empty-file"}
    ELSE {"failed"}
\* backup-database.sh:164-177
DatabaseMetadata(B) ==
    MetaFile(B \o <<METADATA>>, "database", [fmt |-> "DASHED", day |-> Today])

\* the dump's status is not looked at: the metadata is written after it
DbkCreateDatabaseDump_IgnoresPgDumpStatus ==
    /\ dbk.pc = "create_database_dump"
    /\ LET dump_file == dbk.backup_dir \o <<"database.sql">>
       IN  \E outcome \in PgDumpOutcomes(fs, dump_file) :
              /\ DbkGoto("create_backup_summary")
              /\ fs' = Overwrite(fs, (IF outcome = "dumped" THEN {File(dump_file, "dump")}
                                      ELSE IF outcome = "failed-empty-file"
                                      THEN {File(dump_file, "")} ELSE {})
                                     \cup {DatabaseMetadata(dbk.backup_dir)})
    /\ UNCHANGED <<clock, runs, faults, cfg, rb, rbStartFs, sy, syStartFs, dep, depStartFs,
                   ext, fbk>>
    /\ UNCHANGED mv

\* backup-database.sh:133-181 : the script runs under set -e, so a failing
\* pg_dump ends it with pg_dump's status before the metadata is written
DbkCreateDatabaseDump ==
    /\ dbk.pc = "create_database_dump"
    /\ LET dump_file == dbk.backup_dir \o <<"database.sql">>
       IN  \E outcome \in PgDumpOutcomes(fs, dump_file) :
              IF outcome = "dumped"
              THEN /\ DbkGoto("create_backup_summary")
                   /\ fs' = Overwrite(fs, {File(dump_file, "dump"),
                                           DatabaseMetadata(dbk.backup_dir)})
              ELSE /\ DbkExit(1)
                   /\ fs' = IF outcome = "failed-empty-file"
                            THEN Overwrite(fs, {File(dump_file, "")}) ELSE fs
    /\ UNCHANGED <<clock, runs, faults, cfg, rb, rbStartFs, sy, syStartFs, dep, depStartFs,
                   ext, fbk>>
    /\ UNCHANGED mv

\* backup-database.sh:184-226 and 238-242
DbkCreateBackupSummary ==
    /\ dbk.pc = "create_backup_summary"
    /\ DbkExit(0)
    /\ fs' = Overwrite(fs, {File(dbk.backup_dir \o <<"README.md">>, "summary")})
    /\ UNCHANGED <<clock, runs, faults, cfg, rb, rbStartFs, sy, syStartFs, dep, depStartFs,
                   ext, fbk>>
    /\ UNCHANGED mv

FILES_SOURCE_DIR == <<"uploads">>
\* backup-files.sh:138-152
CACHE_EXCLUDES == {".cache/", "cache/", "*.cache", "thumbs/", "thumbnails/",
                   ".tmp/", "tmp/", "*.tmp"}
SYSTEM_EXCLUDES == {".DS_Store", "Thumbs.db", ".git/", ".svn/"}
FilesExcludes(excludeCache) ==
    (IF excludeCache THEN CACHE_EXCLUDES ELSE {}) \cup SYSTEM_EXCLUDES

\* backup-files.sh:111-118 : find "$SOURCE_DIR" -type f | wc -l
count_files(f, source) == Cardinality({n \in Under(f, source) : n.k = "file"})

\* backup-files.sh:352-387 : argument parsing, then main is entered
StartFilesBackup ==
    /\ runs < MaxRuns
    /\ ~DbkRunning /\ ~FbkRunning
    /\ \E source \in {FILES_SOURCE_DIR, <<"no-such-source">>}, dry \in BOOLEAN,
          verbose \in BOOLEAN, includeCache \in BOOLEAN, rsyncInstalled \in BOOLEAN :
          fbk' = [FbkIdle EXCEPT !.pc = "validate_source", !.SOURCE = source,
                                 !.DRY_RUN = dry, !.VERBOSE = verbose,
                                 !.EXCLUDE_CACHE = ~includeCache, !.rsync = rsyncInstalled]
    /\ runs' = runs + 1
    /\ clock' = clock + 1
    /\ UNCHANGED <<fs, faults, cfg, rb, rbStartFs, sy, syStartFs, dep, depStartFs, ext, dbk>>
    /\ UNCHANGED mv

\* backup-files.sh:76-94
FbkValidateSource ==
    /\ fbk.pc = "validate_source"
    /\ IF IsDir(fs, fbk.SOURCE) THEN FbkGoto("create_backup_directory") ELSE FbkExit(1)
    /\ UNCHANGED <<fs, clock, runs, faults, cfg, rb, rbStartFs, sy, syStartFs, dep,
                   depStartFs, ext, dbk>>
    /\ UNCHANGED mv

\* backup-files.sh:121-135 and 322-348
FbkCreateBackupDirectory ==
    /\ fbk.pc = "create_backup_directory"
    /\ LET target_dir == BACKUPS_ROOT \o <<FilesBackupName[clock]>>
       IN  IF fbk.DRY_RUN
           THEN FbkExit(0) /\ fs' = fs
           ELSE /\ fbk' = [fbk EXCEPT !.pc = "backup_files",
                                      !.target_dir = BackupShellPath(fbk.VERBOSE, target_dir)]
                /\ fs' = MkdirP(fs, target_dir)
    /\ UNCHANGED <<clock, runs, faults, cfg, rb, rbStartFs, sy, syStartFs, dep, depStartFs,
                   ext, dbk>>
    /\ UNCHANGED mv

\* names the shell's * does not match, and the names the clean-up removes
IsDotName(name) == name \in {".DS_Store", ".htaccess"}
CpRemovedDirs == {".cache", "cache", "thumbs", "thumbnails"}
CpRemovedFiles == {".DS_Store", "Thumbs.db"}
\* backup-files.sh:179-211 : cp -r "$SOURCE_DIR/"* "$files_target/", then the
\* find ... -exec rm / -delete clean-up
backup_files_cp(f, source, files_target, excludeCache) ==
    LET made == MkdirP(f, files_target)
        copied == {Rebase(n, source, files_target) :
                      n \in {m \in Under(f, source) : ~IsDotName(Rel(m.p, source)[1])}}
        removed(n) ==
            LET rel == Rel(n.p, files_target)
            IN  \/ excludeCache /\ \E i \in 1..Len(rel) :
                       /\ rel[i] \in CpRemovedDirs
                       /\ i < Len(rel) \/ n.k = "dir"
                \/ n.k = "file" /\ Last(rel) \in CpRemovedFiles
        all == Overwrite(made, copied)
    IN  {n \in all : ~(IsPrefix(files_target, n.p) /\ n.p # files_target /\ removed(n))}

\* backup-files.sh:155-176 and 326-331 : the copy with rsync or, when rsync
\* is not installed, with cp; a failing rsync ends the script (set -e)
FbkBackupFiles ==
    /\ fbk.pc = "backup_files"
    /\ LET files_target == fbk.target_dir \o <<"files">>
           made == MkdirP(fs, files_target)
           excl == FilesExcludes(fbk.EXCLUDE_CACHE)
       IN  IF fbk.rsync
           THEN \/ /\ NoFault
                   /\ fs' = Rsync(made, fbk.SOURCE, files_target, excl, {"--archive"}).fs
                   /\ FbkGoto("create_backup_metadata")
                \/ /\ Fault
                   /\ \E S \in Partials(RsyncItems(fs, fbk.SOURCE, files_target, excl),
                                        files_target) :
                         fs' = RsyncPartial(made, files_target, S).fs
                   /\ FbkExit(23)
           ELSE /\ NoFault
                /\ fs' = backup_files_cp(fs, fbk.SOURCE, files_target, fbk.EXCLUDE_CACHE)
                /\ FbkGoto("create_backup_metadata")
    /\ UNCHANGED <<clock, runs, cfg, rb, rbStartFs, sy, syStartFs, dep, depStartFs,
                   ext, dbk>>
    /\ UNCHANGED mv

\* what file_count=$(count_files) holds when verbose_log lines precede the number
NOT_A_NUMBER == -1
\* backup-files.sh:214-246 and 249-306 : file_count is the count of the
\* source directory; then the README and the exit of main
FbkCreateBackupMetadata ==
    /\ fbk.pc = "create_backup_metadata"
    /\ LET file_count == IF fbk.VERBOSE THEN NOT_A_NUMBER
                         ELSE count_files(fs, fbk.SOURCE)
       IN  /\ fbk' = [fbk EXCEPT !.pc = "done", !.exit = 0, !.file_count = file_count]
           /\ fs' = Overwrite(fs,
                       {MetaFile(fbk.target_dir \o <<METADATA>>,
                                 IF fbk.VERBOSE THEN "badjson" ELSE "files",
                                 [fmt |-> "DASHED", day |-> Today]),
                        File(fbk.target_dir \o <<"README.md">>, "summary")})
    /\ UNCHANGED <<clock, runs, faults, cfg, rb, rbStartFs, sy, syStartFs, dep, depStartFs,
                   ext, dbk>>
    /\ UNCHANGED mv

\* the uploads directory: one upload, and what may lie beside it
UploadExtras ==
    { {Dir(<<"cache">>), File(<<"cache", "thumb.png">>, "thumb")},
      {File(<<".DS_Store">>, "finder")},
      {Dir(<<"tmp">>), File(<<"tmp", "upload.part">>, "part")},
      {File(<<".htaccess">>, "rules")} }

InitBackup ==
    /\ \E extras \in SUBSET UploadExtras :
          fs = {Dir(FILES_SOURCE_DIR), File(FILES_SOURCE_DIR \o <<"a.png">>, "img")}
               \cup At(FILES_SOURCE_DIR, UNION extras)
               \cup {Dir(BACKUPS_ROOT)}
    /\ cfg = [exclude_patterns |-> <<>>, rsync_options |-> {"--archive", "--verbose"}]
    /\ clock = 0
    /\ runs = 0
    /\ faults = 0
    /\ rb = RbIdle
    /\ rbStartFs = {}
    /\ sy = SyIdle
    /\ syStartFs = {}
    /\ dep = DepIdle
    /\ depStartFs = {}
    /\ ext = ExtIdle /\ dbk = DbkIdle /\ fbk = FbkIdle /\ mv = MvIdle

NextBackup ==
    \/ StartDbBackup
    \/ DbkCheckPrerequisites
    \/ DbkCreateBackupDirectory
    \/ DbkCreateDatabaseDump
    \/ DbkCreateBackupSummary
    \/ StartFilesBackup
    \/ FbkValidateSource
    \/ FbkCreateBackupDirectory
    \/ FbkBackupFiles
    \/ FbkCreateBackupMetadata

SpecBackup == InitBackup /\ [][NextBackup]_vars

\* C19: a backup-database.sh run that ends with status 0 and leaves a
\* backup directory with its metadata file has a dump in it that is not a
\* zero-byte file.
C19_NoSuccessForEmptyDump ==
    (dbk.pc = "done" /\ dbk.exit = 0 /\ IsFile(fs, dbk.backup_dir \o <<METADATA>>))
        => /\ IsFile(fs, dbk.backup_dir \o <<"database.sql">>)
           /\ NodeAt(fs, dbk.backup_dir \o <<"database.sql">>).c # ""
C19_Witness ==
    /\ dbk.pc = "done" /\ ~dbk.DRY_RUN
    /\ IsFile(fs, dbk.backup_dir \o <<"database.sql">>)
    /\ NodeAt(fs, dbk.backup_dir \o <<"database.sql">>).c = ""
    /\ dbk.exit # 0
    /\ ~IsFile(fs, dbk.backup_dir \o <<METADATA>>)

PayloadFiles == {n \in Under(fs, fbk.target_dir \o <<"files">>) : n.k = "file"}
\* C20: after a live backup-files.sh run that ended with status 0, the
\* file_count written to backup-metadata.json is the number of regular
\* files below the backup's files/ directory.
C20_FileCountMatchesPayload ==
    (fbk.pc = "done" /\ fbk.exit = 0 /\ ~fbk.DRY_RUN)
        => fbk.file_count = Cardinality(PayloadFiles)

(***************************************************************************)
(* manage-versions.sh --cleanup, run by the operator.  A backup is a       *)
(* directory below the backups directory; the ts field of its node is its  *)
(* modification time, and a .backup-tags file in it holds its tags.        *)
(***************************************************************************)
\* number of backups in the backups directory
MaxBackups == 12
\* manage-versions.sh:342-344
KEEP_RECENT == 10
KEEP_TAGGED_DAYS == 90
KEEP_UNTAGGED_DAYS == 30

VersionName == <<"backup-01", "backup-02", "backup-03", "backup-04", "backup-05",
                 "backup-06", "backup-07", "backup-08", "backup-09", "backup-10",
                 "backup-11", "backup-12", "backup-13", "backup-14">>
\* manage-versions.sh:355 : find -mindepth 1 -maxdepth 1 -type d -name "*backup*"
VersionDirs(f) ==
    {n.p : n \in {m \in f : /\ m.k = "dir"
                            /\ Len(m.p) = 2
                            /\ Parent(m.p) = BACKUPS_ROOT
                            /\ Last(m.p) \in Range(VersionName)}}
ModifiedDay(f, b) == NodeAt(f, b).ts.day
\* ... -printf '%T@ %p\n' | sort -nr : the newest first
NewestFirst(f) ==
    LET dirs == VersionDirs(f)
        rank(b) == 1 + Cardinality({c \in dirs : ModifiedDay(f, c) > ModifiedDay(f, b)})
    IN  [i \in 1..Cardinality(dirs) |-> CHOOSE b \in dirs : rank(b) = i]
\* manage-versions.sh:111-120
get_backup_tags(f, b) == IF IsFile(f, b \o <<".backup-tags">>) THEN "tags" ELSE ""
\* manage-versions.sh:376-403 : the verdict on the backup at index i (from 0)
should_keep(f, b, i) ==
    LET age_days == Today - ModifiedDay(f, b)
    IN  IF i < KEEP_RECENT THEN TRUE
        ELSE IF get_backup_tags(f, b) # "" THEN age_days <= KEEP_TAGGED_DAYS
        ELSE age_days <= KEEP_UNTAGGED_DAYS
\* the exit status of ((count++)) : 1 when the expression's value, the count
\* before the increment, is 0
IncrementStatus(count) == IF count = 0 THEN 1 ELSE 0

MvRunning == mv.pc \notin {"idle", "done"}

\* manage-versions.sh:473-526 : argument parsing with --cleanup
StartCleanup ==
    /\ runs < MaxRuns
    /\ ~MvRunning
    /\ \E verbose \in BOOLEAN :
          mv' = [MvIdle EXCEPT !.pc = "validate_backup_directory", !.VERBOSE = verbose,
                               !.start = fs]
    /\ runs' = runs + 1
    /\ clock' = clock + 1
    /\ UNCHANGED <<fs, faults, cfg, rb, rbStartFs, sy, syStartFs, dep, depStartFs,
                   ext, dbk, fbk>>

\* manage-versions.sh:65-82
MvValidateBackupDirectory ==
    /\ mv.pc = "validate_backup_directory"
    /\ mv' = [mv EXCEPT !.pc = "cleanup_old_backups"]
    /\ fs' = MkdirP(fs, BACKUPS_ROOT)
    /\ UNCHANGED <<clock, runs, faults, cfg, rb, rbStartFs, sy, syStartFs, dep, depStartFs,
                   ext, dbk, fbk>>

\* manage-versions.sh:333-361
MvListBackups ==
    /\ mv.pc = "cleanup_old_backups"
    /\ IF VersionDirs(fs) = {}
       THEN mv' = [mv EXCEPT !.pc = "done", !.exit = 0]
       ELSE mv' = [mv EXCEPT !.pc = "for", !.backup_dirs = NewestFirst(fs), !.i = 1]
    /\ UNCHANGED <<fs, clock, runs, faults, cfg, rb, rbStartFs, sy, syStartFs, dep,
                   depStartFs, ext, dbk, fbk>>

\* manage-versions.sh:370-427 : one turn of the loop, and the end of the
\* function after the last.  The script runs under set -e and the function
\* is called as a plain command, so a counter increment with status 1 ends
\* the script with that status.
MvCleanupNext ==
    /\ mv.pc = "for"
    /\ LET backup_dir == mv.backup_dirs[mv.i]
           keep == should_keep(fs, backup_dir, mv.i - 1)
           status == IF keep THEN IncrementStatus(mv.kept_count)
                     ELSE IncrementStatus(mv.removed_count)
           last == mv.i = Len(mv.backup_dirs)
       IN  /\ fs' = IF keep THEN fs ELSE RmRf(fs, backup_dir)
           /\ mv' = [mv EXCEPT !.kept_count = IF keep THEN @ + 1 ELSE @,
                               !.removed_count = IF keep THEN @ ELSE @ + 1,
                               !.i = @ + 1,
                               !.pc = IF status # 0 \/ last THEN "done" ELSE "for",
                               !.exit = IF status # 0 THEN status
                                        ELSE IF last THEN 0 ELSE -1]
    /\ UNCHANGED <<clock, runs, faults, cfg, rb, rbStartFs, sy, syStartFs, dep, depStartFs,
                   ext, dbk, fbk>>

\* backup number i, last modified age days ago
Version(i, age, tagged) ==
    {[p |-> BACKUPS_ROOT \o <<VersionName[i]>>, k |-> "dir", c |-> "",
      ts |-> [fmt |-> "mtime", day |-> Today - age]],
     File(BACKUPS_ROOT \o <<VersionName[i], "database.sql">>, "dump")}
        \cup (IF tagged THEN {File(BACKUPS_ROOT \o <<VersionName[i], ".backup-tags">>, "tags")}
              ELSE {})
\* the ages of the backups beyond the most recent ones: within both
\* windows, within the window of tagged backups only, beyond both
OlderAges == {KEEP_UNTAGGED_DAYS - 1, KEEP_UNTAGGED_DAYS + 1, KEEP_TAGGED_DAYS + 1}

InitVersions ==
    /\ \E n \in 0..MaxBackups :
       \E age \in [KEEP_RECENT + 1 .. n -> OlderAges],
          tagged \in [KEEP_RECENT + 1 .. n -> BOOLEAN] :
          /\ \A i, j \in KEEP_RECENT + 1 .. n : i < j => age[i] <= age[j]
          /\ fs = {Dir(BACKUPS_ROOT)}
                  \cup UNION {Version(i, i, FALSE) : i \in 1 .. (IF n < KEEP_RECENT THEN n
                                                                 ELSE KEEP_RECENT)}
                  \cup UNION {Version(i, age[i] + i, tagged[i]) : i \in KEEP_RECENT + 1 .. n}
    /\ cfg = [exclude_patterns |-> <<>>, rsync_options |-> {"--archive", "--verbose"}]
    /\ clock = 0
    /\ runs = 0
    /\ faults = 0
    /\ rb = RbIdle
    /\ rbStartFs = {}
    /\ sy = SyIdle
    /\ syStartFs = {}
    /\ dep = DepIdle
    /\ depStartFs = {}
    /\ ext = ExtIdle /\ dbk = DbkIdle /\ fbk = FbkIdle /\ mv = MvIdle

NextVersions ==
    \/ StartCleanup
    \/ MvValidateBackupDirectory
    \/ MvListBackups
    \/ MvCleanupNext

SpecVersions == InitVersions /\ [][NextVersions]_vars

RetentionWindow(f, b) ==
    IF get_backup_tags(f, b) # "" THEN KEEP_TAGGED_DAYS ELSE KEEP_UNTAGGED_DAYS
AmongMostRecent(f, b) ==
    Cardinality({c \in VersionDirs(f) : ModifiedDay(f, c) > ModifiedDay(f, b)}) < KEEP_RECENT
\* C21: when manage-versions.sh --cleanup has finished, a backup has been
\* deleted exactly when it was not among the 10 most recently modified
\* backups and was older than its retention window (90 days with tags, 30
\* days without).
C21_RetentionAppliedExactly ==
    mv.pc = "done" =>
        \A b \in VersionDirs(mv.start) :
            ~IsDir(fs, b) <=> /\ ~AmongMostRecent(mv.start, b)
                              /\ Today - ModifiedDay(mv.start, b) > RetentionWindow(mv.start, b)

StageFailed(d) == d.failure # "none" \/ d.aborted # "none" \/ d.trapped
Enters(pc) == dep'.pc = pc /\ dep.pc # pc
\* C22: in every deploy.sh run the stages start in the order pre-flight
\* checks, backup, code sync, extension deploy, post-deploy validation; a
\* stage starts from the stage before it, only when that one succeeded or
\* was skipped and no child script is running, and once a stage has failed
\* only failure handling follows.
C22_StagesInOrder ==
    [][/\ Enters("run_pre_deployment_checks") => dep.pc = "validate_prerequisites"
       /\ Enters("create_backup") => dep.pc = "run_pre_deployment_checks"
       /\ Enters("backup_files") => dep.pc = "create_backup"
       /\ Enters("perform_deployment") => dep.pc \in {"create_backup", "find_backup"}
       /\ Enters("sync_running")
             => /\ dep.pc = "perform_deployment"
                /\ dep.backupStage \in {"done", "skipped"}
       /\ Enters("deploy_extensions")
             => dep.pc = "sync_running" /\ sy.pc = "done" /\ sy.exit = 0
       /\ Enters("run_post_deployment_validation")
             => dep.pc = IF dep.DRY_RUN THEN "perform_deployment" ELSE "deploy_extensions"
       /\ (DepRunning /\ StageFailed(dep))
             => dep'.pc \in {dep.pc, "handle_deployment_failure", "rollback_running", "done"}
       /\ (DepRunning /\ ~StageFailed(dep) /\ dep'.pc # dep.pc /\ ~StageFailed(dep'))
             => ~ChildRunning
       /\ ~(SyRunning /\ RbRunning)]_vars
C22_Witness ==
    /\ DepLive /\ dep.pc = "done" /\ dep.failure = "sync"
    /\ sy.pc = "done" /\ sy.exit # 0
    /\ ~IsDir(fs, TARGET_DIR \o <<"extensions">>)

\* the target's application code: what lies outside uploads/ and data/
AppCode(f) == {n \in TreeAt(f, TARGET_DIR) : n.p[1] \notin {"uploads", "data"}}
TakenInThisRun(B) ==
    /\ Len(B) = 2
    /\ Last(B) \in Range(DbBackupName) \cup Range(FilesBackupName)
    /\ ~IsDir(depStartFs, B)
FreshStageBackup(f, B) ==
    /\ IsFile(f, B \o <<METADATA>>)
    /\ NodeAt(f, B \o <<METADATA>>).c # "badjson"
    /\ NodeAt(f, B \o <<METADATA>>).ts.fmt = "DASHED"
    /\ Today - NodeAt(f, B \o <<METADATA>>).ts.day < STALE_DAYS
    /\ ~(IsFile(f, B \o <<"database.sql">>) /\ NodeAt(f, B \o <<"database.sql">>).c = "")

\* C24: a backup whose metadata timestamp has the format YYYY-MM-DDTHH-MM-SS
\* and that is less than 30 days old passes the backup verification of a
\* live rollback: no issue is counted and the run does not end with status 2.
C24_FreshBackupAccepted ==
    (RbLive /\ RbVerified /\ FreshStageBackup(rbStartFs, rb.BACKUP_DIR))
        => rb.issues = 0 /\ rb.exit # 2

\* C25: the backup reference deploy.sh holds once its backup stage is done,
\* and the one it hands to rollback.sh, is a backup directory created by
\* this run.
C25_BackupReferenceIsOwn ==
    /\ (DepLive /\ dep.backupStage = "done" /\ dep.pc # "find_backup")
          => TakenInThisRun(dep.BACKUP_CREATED)
    /\ (DepLive /\ dep.pc = "rollback_running" /\ rb.caller = "deploy")
          => TakenInThisRun(rb.BACKUP_DIR)


\* C26: in a live staged sync the path that perform_sync, set_permissions and
\* promote_staging receive is the staging directory that
\* create_staging_directory made, and such a run with an existing source and
\* no failing command ends with status 0 after the rename into the target.
StagedSyncPastCreation ==
    /\ SyLive
    /\ sy.caller = "operator"
    /\ sy.USE_STAGING
    /\ sy.pc \in {"perform_sync", "promote_staging", "promote_mv_target",
                  "promote_mv_new", "promote_cleanup"}
C26_StagedSyncUsesStagingDir ==
    /\ StagedSyncPastCreation => ShellPath(sy.sync_target) = STAGING_DIR
    /\ (/\ SyLive /\ sy.caller = "operator" /\ sy.USE_STAGING /\ sy.pc = "done"
        /\ IsDir(syStartFs, sy.SOURCE) /\ faults = 0)
           => sy.exit = 0 /\ sy.renamed


\* C27: in a live orchestrator run whose sync succeeded, the extension stage
\* receives the source the operator supplied and only options
\* deploy-extensions.sh knows, so with and without --force and --verbose the
\* stage does not fail while no plugin deployment has failed.
C27_ExtensionStageAcceptsArguments ==
    (DepLive /\ sy.caller = "deploy" /\ sy.pc = "done" /\ sy.exit = 0
        /\ IsDir(fs, dep.SOURCE))
        => /\ dep.failure # "extensions"
           /\ dep.pc = "deploy_extensions"
                  => ExtensionDeployAccepts(fs, dep.FORCE, dep.SOURCE)


\* C28: a live rollback that restored without a failed item, promoted the
\* restored tree and left a target holding package.json passes the
\* post-restore verification and ends with status 0; status 1 after the
\* promotion means the restored target lacks an essential file.
RestoredAndPromoted ==
    /\ RbLive
    /\ rb.pc = "done"
    /\ rb.promoted
    /\ rb.failed = {}
    /\ rb.exit \in {0, 1}
C28_SuccessfulRollbackExitsZero ==
    RestoredAndPromoted
        => /\ IsFile(fs, TARGET_DIR \o <<"package.json">>) => rb.exit = 0
           /\ rb.exit = 1 => ~IsFile(fs, TARGET_DIR \o <<"package.json">>)


\* C29: the rollback that failure handling starts never depends on a line
\* typed by the operator: it does not reach the confirmation prompt with the
\* prompt enabled and never ends with status 3 (cancelled by user).
C29_AutoRollbackUnattended ==
    (DepLive /\ rb.caller = "deploy" /\ dep.rollbacks # <<>>)
        => /\ rb.pc = "get_user_confirmation" => (rb.FORCE \/ rb.DRY_RUN)
           /\ rb.pc = "done" => rb.exit # 3


\* C30: one orchestrator run starts rollback.sh at most once, whenever INT or
\* TERM arrives, also while failure handling is already under way.
C30_RollbackInvokedAtMostOnce ==
    Len(dep.rollbacks) <= 1
====
